---- MODULE Spec2Model ----
(***************************************************************************)
(* nom-date-parsers: the numeric date recognizers of src/src/numeric.rs,   *)
(* the English and Russian words of src/src/i18n, the quick patterns of    *)
(* src/src/quick.rs and the alternation of src/examples/cli.rs.            *)
(*                                                                         *)
(* The library keeps no state of its own: every recognizer is a function   *)
(* of the text it is handed and, for the recognizers of partial dates,     *)
(* relative days and weekdays, of the local date read by Local::now()      *)
(* during the call.  A call that panics returns Panic.  The state machine  *)
(* is the caller's view of one call: the text handed over, the recognizer  *)
(* called, the clock value the call read, and the IResult it returned.     *)
(*                                                                         *)
(* A text (&str) is a sequence of one-character strings.                   *)
(***************************************************************************)
EXTENDS Integers, Sequences, FiniteSets, TLC

VARIABLES
    call,     \* the recognizer the caller invoked ("idle" before any call)
    fields,   \* the pieces the caller concatenated into the text
    input,    \* the &str handed to the recognizer
    now,      \* Option<NaiveDate>: what Local::now() returned to this call
    outcome,  \* the IResult returned
    wall,     \* the local date of the system clock that concurrent calls read
    callers   \* the call each concurrent caller is in, step by step

vars == <<call, fields, input, now, outcome, wall, callers>>

----------------------------------------------------------------------------
(* Bounds of the model                                                     *)

\* longest text handed to dd, mm and numeric_date_parts_separator
MaxTextLen == 3
\* longest text handed to y4 (four characters and one more)
MaxYearTextLen == 5
\* longest run of spaces and tabs used as one separator
MaxSepRun == 2
\* day and month numbers written into composite inputs run from 0 to these
MaxDayValue == 33
MaxMonthValue == 14

----------------------------------------------------------------------------
(* Texts                                                                   *)

Digits == <<"0", "1", "2", "3", "4", "5", "6", "7", "8", "9">>

DigitChars == {Digits[k] : k \in 1..10}

IsDigit(c) == c \in DigitChars

\* char::to_digit(10) of a decimal digit
DigitVal(c) == (CHOOSE k \in 1..10 : Digits[k] = c) - 1

Drop(s, n) == SubSeq(s, n + 1, Len(s))

Take(s, n) == SubSeq(s, 1, n)

\* all texts over alphabet A of length at most n
RECURSIVE TextsUpTo(_, _)
TextsUpTo(A, n) ==
    IF n = 0 THEN {<<>>}
    ELSE LET shorter == TextsUpTo(A, n - 1)
         IN  shorter \cup {Append(t, c) : t \in shorter, c \in A}

----------------------------------------------------------------------------
(* IResult<&str, O> and crate::error::Error                                *)

Ok(r, v) == [ok |-> TRUE, rest |-> r, val |-> v]

\* nom::Err<Error<I>>: Err::Error is recoverable, Err::Failure and
\* Err::Incomplete are not
NomErr(s, e) == [ok |-> FALSE, sev |-> s, err |-> e]

\* Err(nom::Err::Error(e))
Err(e) == NomErr("Error", e)

DayOutOfRange == [kind |-> "DayOutOfRange"]

MonthOutOfRange == [kind |-> "MonthOutOfRange"]

\* Error::from_error_kind
Nom(i, k) == [kind |-> "Nom", at |-> i, code |-> k]

\* Error::from_external_error
ParseIntError(i, k, e) ==
    [kind |-> "ParseIntError", at |-> i, code |-> k, cause |-> e]

\* the call does not return: an unwrap() or expect() met None and panicked
Panic == Err([kind |-> "panic"])

panicked(r) == ~r.ok /\ r.err.kind = "panic"

----------------------------------------------------------------------------
(* The library calls the recognizers are built from                        *)

\* the number a text of decimal digits stands for
RECURSIVE DecimalValue(_, _)
DecimalValue(s, acc) ==
    IF s = <<>> THEN acc
    ELSE DecimalValue(Tail(s), acc * 10 + DigitVal(Head(s)))

\* variant: an unsigned parse that takes decimal digits only, no '+'
parse_u32_digits_only(s) ==
    IF s = <<>> THEN [ok |-> FALSE, cause |-> "Empty"]
    ELSE IF \A k \in 1..Len(s) : IsDigit(s[k])
         THEN [ok |-> TRUE, val |-> DecimalValue(s, 0)]
         ELSE [ok |-> FALSE, cause |-> "InvalidDigit"]

\* str::parse::<u32>(): an optional leading '+', then decimal digits only.
\* A '-' is no sign for an unsigned type.  Texts of at most four characters
\* cannot overflow a u32.
parse_u32(s) ==
    IF s = <<>> THEN [ok |-> FALSE, cause |-> "Empty"]
    ELSE IF s = <<"+">> \/ s = <<"-">> THEN [ok |-> FALSE, cause |-> "InvalidDigit"]
    ELSE LET digits == IF Head(s) = "+" THEN Tail(s) ELSE s
         IN  IF \A k \in 1..Len(digits) : IsDigit(digits[k])
             THEN [ok |-> TRUE, val |-> DecimalValue(digits, 0)]
             ELSE [ok |-> FALSE, cause |-> "InvalidDigit"]

\* nom::bytes::complete::take(n) on &str: the first n characters
take(n, i) ==
    IF Len(i) < n THEN Err(Nom(i, "Eof"))
    ELSE Ok(Drop(i, n), Take(i, n))

\* nom::combinator::map_res: r is what the parser returned on input i and
\* p what the closure made of its value; the closure's failure is reported
\* at i
map_res(i, r, p) ==
    IF p.ok THEN Ok(r.rest, p.val) ELSE Err(ParseIntError(i, "MapRes", p.cause))

\* map_res(take(n), |s| s.parse()), after take(n) has returned r
parse_taken(i, r) == IF ~r.ok THEN r ELSE map_res(i, r, parse_u32(r.val))

take_parse(n, i) == parse_taken(i, take(n, i))

\* nom::bytes::complete::tag(t)
tag(t, i) ==
    IF Len(i) >= Len(t) /\ Take(i, Len(t)) = t THEN Ok(Drop(i, Len(t)), t)
    ELSE Err(Nom(i, "Tag"))

\* nom::character::complete::space1: one or more of ' ' and '\t'
IsSpace(c) == c \in {" ", "\t"}

RECURSIVE SpaceRun(_)
SpaceRun(i) ==
    IF i # <<>> /\ IsSpace(Head(i)) THEN 1 + SpaceRun(Tail(i)) ELSE 0

\* variant: the run of spaces and tabs may be empty (space0)
space1_or_none(i) == Ok(Drop(i, SpaceRun(i)), Take(i, SpaceRun(i)))

space1(i) ==
    LET n == SpaceRun(i)
    IN  IF n = 0 THEN Err(Nom(i, "Space")) ELSE Ok(Drop(i, n), Take(i, n))

\* nom::branch::alt keeping the first failure instead of the last
alt_first_failure(r1, r2) == IF r1.ok \/ panicked(r1) \/ ~r2.ok THEN r1 ELSE r2

\* nom::branch::alt with Error::or / Error::append of src/src/error.rs:
\* the first success, else the failure of the later alternative; a panic
\* in an alternative ends the whole call; only Err::Error lets alt go on
alt(r1, r2) == IF r1.ok \/ panicked(r1) \/ r1.sev # "Error" THEN r1 ELSE r2

\* nom::combinator::value(v, parser): the parser's success with v as value
value(v, r) == IF r.ok THEN Ok(r.rest, v) ELSE r

\* char::to_lowercase, for the letters of the word tables: the Latin
\* letters, and the Cyrillic letters of src/src/i18n/ru.rs, which a text
\* holds as "ru_" and a transliteration for the small letter and "RU_" and
\* the same for the capital letter
LatinSmall ==
    <<"a", "b", "c", "d", "e", "f", "g", "h", "i", "j", "k", "l", "m",
      "n", "o", "p", "q", "r", "s", "t", "u", "v", "w", "x", "y", "z">>

LatinCapital ==
    <<"A", "B", "C", "D", "E", "F", "G", "H", "I", "J", "K", "L", "M",
      "N", "O", "P", "Q", "R", "S", "T", "U", "V", "W", "X", "Y", "Z">>

CyrillicLetters ==
    <<"a", "b", "v", "g", "d", "e", "z", "i", "k", "l", "n", "o", "p",
      "r", "s", "t", "u", "c", "ch", "soft", "ya">>

\* a Russian word in small letters, and in capital letters
Ru(w) == [k \in 1..Len(w) |-> "ru_" \o w[k]]

RU(w) == [k \in 1..Len(w) |-> "RU_" \o w[k]]

SmallLetters == LatinSmall \o Ru(CyrillicLetters)

CapitalLetters == LatinCapital \o RU(CyrillicLetters)

to_lowercase(c) ==
    IF \E k \in 1..Len(CapitalLetters) : CapitalLetters[k] = c
    THEN SmallLetters[CHOOSE k \in 1..Len(CapitalLetters) : CapitalLetters[k] = c]
    ELSE c

\* tag_no_case comparing the characters as they are
tag_same_case(t, i) ==
    IF Len(i) >= Len(t) /\ \A k \in 1..Len(t) : i[k] = t[k]
    THEN Ok(Drop(i, Len(t)), Take(i, Len(t)))
    ELSE Err(Nom(i, "Tag"))

\* nom::bytes::complete::tag_no_case(t): the characters of t, compared
\* after to_lowercase on both sides; the input's own characters are the value
tag_no_case(t, i) ==
    IF Len(i) >= Len(t) /\ \A k \in 1..Len(t) : to_lowercase(i[k]) = to_lowercase(t[k])
    THEN Ok(Drop(i, Len(t)), Take(i, Len(t)))
    ELSE Err(Nom(i, "Tag"))

----------------------------------------------------------------------------
(* src/src/numeric.rs                                                      *)

\* variant: the blank alternative takes a single space or tab, not the run
separator_single_blank(i) ==
    LET r == alt(tag(<<"/">>, i), alt(tag(<<"-">>, i), alt(tag(<<".">>, i),
                 alt(tag(<<" ">>, i), tag(<<"\t">>, i)))))
    IN  IF ~r.ok THEN r ELSE Ok(r.rest, <<>>)

\* variant: the '.' alternative is missing
separator_without_dot(i) ==
    LET r == alt(tag(<<"/">>, i), alt(tag(<<"-">>, i), space1(i)))
    IN  IF ~r.ok THEN r ELSE Ok(r.rest, <<>>)

\* the `?` and Ok((input, ())) after the separator's alt
unit(r) == IF ~r.ok THEN r ELSE Ok(r.rest, <<>>)

numeric_date_parts_separator(i) ==
    unit(alt(tag(<<"/">>, i), alt(tag(<<"-">>, i), alt(tag(<<".">>, i), space1(i)))))

\* variant: the upper bound is off by one (dd >= 31)
dd_rejects_31(i) ==
    LET r == alt(take_parse(2, i), take_parse(1, i))
    IN  IF ~r.ok THEN r
        ELSE IF r.val = 0 \/ r.val >= 31 THEN Err(DayOutOfRange)
        ELSE Ok(r.rest, r.val)

\* variant: the range check is part of the two-character alternative, so an
\* out-of-range pair falls back to the first digit
dd_range_fallback(i) ==
    LET two == take_parse(2, i)
        r == IF two.ok /\ two.val \in 1..31 THEN two ELSE take_parse(1, i)
    IN  IF ~r.ok THEN r
        ELSE IF r.val = 0 \/ r.val > 31 THEN Err(DayOutOfRange)
        ELSE Ok(r.rest, r.val)

\* variant: the day out of range is reported as Err::Failure
day_in_range_failure(r) ==
    IF ~r.ok THEN r
    ELSE IF r.val = 0 \/ r.val > 31 THEN NomErr("Failure", DayOutOfRange)
    ELSE Ok(r.rest, r.val)

\* the `?` and the range check after dd's alt
day_in_range(r) ==
    IF ~r.ok THEN r
    ELSE IF r.val = 0 \/ r.val > 31 THEN Err(DayOutOfRange)
    ELSE Ok(r.rest, r.val)

dd(i) == day_in_range(alt(take_parse(2, i), take_parse(1, i)))

\* variant: the upper bound is off by one (mm >= 12)
mm_rejects_12(i) ==
    LET r == alt(take_parse(2, i), take_parse(1, i))
    IN  IF ~r.ok THEN r
        ELSE IF r.val = 0 \/ r.val >= 12 THEN Err(MonthOutOfRange)
        ELSE Ok(r.rest, r.val)

\* variant: the month out of range is reported as Err::Failure
month_in_range_failure(r) ==
    IF ~r.ok THEN r
    ELSE IF r.val = 0 \/ r.val > 12 THEN NomErr("Failure", MonthOutOfRange)
    ELSE Ok(r.rest, r.val)

\* the `?` and the range check after mm's alt
month_in_range(r) ==
    IF ~r.ok THEN r
    ELSE IF r.val = 0 \/ r.val > 12 THEN Err(MonthOutOfRange)
    ELSE Ok(r.rest, r.val)

mm(i) == month_in_range(alt(take_parse(2, i), take_parse(1, i)))

y4(i) == take_parse(4, i)

----------------------------------------------------------------------------
(* chrono::NaiveDate, as numeric.rs uses it.  A NaiveDate holds the year   *)
(* and the ordinal (day of the year); month and day are derived from it.   *)

None == [some |-> FALSE]

Some(x) == [some |-> TRUE, v |-> x]

is_leap_year(y) == y % 4 = 0 /\ (y % 100 # 0 \/ y % 400 = 0)

days_in_month(y, m) ==
    IF m = 2 THEN (IF is_leap_year(y) THEN 29 ELSE 28)
    ELSE IF m \in {4, 6, 9, 11} THEN 30 ELSE 31

RECURSIVE days_before_month(_, _)
days_before_month(y, m) ==
    IF m = 1 THEN 0 ELSE days_before_month(y, m - 1) + days_in_month(y, m - 1)

\* NaiveDate::from_ymd_opt(year, month, day)
from_ymd_opt(y, m, d) ==
    IF m \in 1..12 /\ d \in 1..days_in_month(y, m)
    THEN Some([year |-> y, ordinal |-> days_before_month(y, m) + d])
    ELSE None

\* Datelike::year, Datelike::month, Datelike::day
date_year(t) == t.year

date_month(t) ==
    CHOOSE m \in 1..12 :
        /\ days_before_month(t.year, m) < t.ordinal
        /\ t.ordinal <= days_before_month(t.year, m) + days_in_month(t.year, m)

date_day(t) == t.ordinal - days_before_month(t.year, date_month(t))

\* NaiveDate::MIN and NaiveDate::MAX are the first and last day of these years
MIN_YEAR == -262143

MAX_YEAR == 262142

\* i32::MAX, the largest day count NaiveDate arithmetic takes
I32_MAX == 2147483647

\* the days of the proleptic Gregorian calendar before 1 January of year y,
\* counted from 1 January of year 1
days_before_year(y) ==
    365 * (y - 1) + ((y - 1) \div 4) - ((y - 1) \div 100) + ((y - 1) \div 400)

\* Datelike::num_days_from_ce: 1 January of year 1 is day 1
num_days_from_ce(t) == days_before_year(t.year) + t.ordinal

\* the year that holds day n: an estimate from the 400-year cycle of
\* 146097 days, then the exact year next to it
year_of_day(n) ==
    LET guess == ((n - 1) \div 146097) * 400
                     + ((((n - 1) % 146097) * 400) \div 146097) + 1
    IN  CHOOSE y \in (guess - 2)..(guess + 2) :
            days_before_year(y) < n /\ n <= days_before_year(y + 1)

\* day n as a date of year y, when NaiveDate has that year
date_in_year(n, y) ==
    IF y < MIN_YEAR \/ y > MAX_YEAR THEN None
    ELSE Some([year |-> y, ordinal |-> n - days_before_year(y)])

\* NaiveDate::from_num_days_from_ce_opt
from_num_days_from_ce_opt(n) == date_in_year(n, year_of_day(n))

\* Datelike::weekday as i64: Monday is 0, Sunday is 6
weekday(t) == (num_days_from_ce(t) - 1) % 7

\* A u64 is kept as its decimal numeral, a digit text without leading
\* zeros, so that every value up to 2^64 - 1 can be written.
RECURSIVE numeral(_)
numeral(s) ==
    IF Len(s) > 1 /\ Head(s) = "0" THEN numeral(Tail(s)) ELSE s

\* a < b for two numerals
numeral_less(a, b) ==
    \/ Len(a) < Len(b)
    \/ /\ Len(a) = Len(b)
       /\ \E k \in 1..Len(a) :
              /\ \A j \in 1..(k - 1) : a[j] = b[j]
              /\ DigitVal(a[k]) < DigitVal(b[k])

\* u64::MAX = 18446744073709551615
U64_MAX ==
    <<"1", "8", "4", "4", "6", "7", "4", "4", "0", "7",
      "3", "7", "0", "9", "5", "5", "1", "6", "1", "5">>

I32_MAX_numeral == <<"2", "1", "4", "7", "4", "8", "3", "6", "4", "7">>

\* NaiveDate::checked_add_days(Days::new(days)): None when the count does
\* not fit an i32, when the day number overflows, or past NaiveDate::MAX
checked_add_days(t, days) ==
    IF numeral_less(I32_MAX_numeral, days) THEN None
    ELSE IF /\ num_days_from_ce(t) > 0
            /\ DecimalValue(days, 0) > I32_MAX - num_days_from_ce(t)
         THEN None
         ELSE from_num_days_from_ce_opt(num_days_from_ce(t) + DecimalValue(days, 0))

\* NaiveDate::checked_sub_days(Days::new(days))
checked_sub_days(t, days) ==
    IF numeral_less(I32_MAX_numeral, days) THEN None
    ELSE IF /\ num_days_from_ce(t) < 0
            /\ DecimalValue(days, 0) > I32_MAX + num_days_from_ce(t)
         THEN None
         ELSE from_num_days_from_ce_opt(num_days_from_ce(t) - DecimalValue(days, 0))

\* NaiveDate::checked_add_signed(TimeDelta::try_days(n).unwrap()) for the
\* differences of two weekdays, -6 <= n <= 6
checked_add_signed(t, n) == from_num_days_from_ce_opt(num_days_from_ce(t) + n)

----------------------------------------------------------------------------
(* src/src/numeric.rs: the composite recognizers.  t is the NaiveDate that *)
(* Local::now() returns when the recognizer reads the clock.               *)

\* the recognizers that separated_pair and tuple are given, by name
apply(p, i) ==
    CASE p = "dd" -> dd(i)
      [] p = "mm" -> mm(i)
      [] p = "y4" -> y4(i)
      [] p = "separator" -> numeric_date_parts_separator(i)

\* nom::sequence::tuple: the recognizers ps run left to right, each on what
\* the one before left; the first failure is the result, else the values
RECURSIVE tuple_from(_, _, _), tuple_next(_, _, _)
\* variant: after a failure the later recognizers are still tried, on the
\* same text, and the last failure is the one returned
tuple_from_keeps_going(ps, i, acc) ==
    IF ps = <<>> THEN Ok(i, acc)
    ELSE LET r == apply(Head(ps), i)
         IN  IF ~r.ok
             THEN (IF tuple_from(Tail(ps), i, acc).ok THEN r
                   ELSE tuple_from(Tail(ps), i, acc))
             ELSE tuple_from(Tail(ps), r.rest, Append(acc, r.val))

tuple_from(ps, i, acc) ==
    IF ps = <<>> THEN Ok(i, acc) ELSE tuple_next(ps, acc, apply(Head(ps), i))

\* the first recognizer of ps has returned r
tuple_next(ps, acc, r) ==
    IF ~r.ok THEN r ELSE tuple_from(Tail(ps), r.rest, Append(acc, r.val))

tuple(ps, i) == tuple_from(ps, i, <<>>)

\* nom::sequence::separated_pair: tuple, without the separator's value
pair(r) == IF ~r.ok THEN r ELSE Ok(r.rest, <<r.val[1], r.val[3]>>)

separated_pair(first, sep, second, i) == pair(tuple(<<first, sep, second>>, i))

\* variant: the parsed day and the current month change places
dd_only_date_swapped(r, t) ==
    IF ~r.ok THEN r
    ELSE Ok(r.rest, from_ymd_opt(date_year(t), r.val, date_month(t)))

\* the `?` after a recognizer and the Ok(..) that ends the function: r is
\* what the fields' recognizer returned, its failure is passed on
dd_only_date(r, t) ==
    IF ~r.ok THEN r
    ELSE Ok(r.rest, from_ymd_opt(date_year(t), date_month(t), r.val))

dd_only(i, t) == dd_only_date(dd(i), t)

dd_mm(i) == separated_pair("dd", "separator", "mm", i)

\* variant: a day the month does not have is reported as a failure
dd_mm_only_date_strict(r, t) ==
    IF ~r.ok THEN r
    ELSE IF ~from_ymd_opt(date_year(t), r.val[2], r.val[1]).some
         THEN Err([kind |-> "NonExistentDate"])
         ELSE Ok(r.rest, from_ymd_opt(date_year(t), r.val[2], r.val[1]))

dd_mm_only_date(r, t) ==
    IF ~r.ok THEN r
    ELSE Ok(r.rest, from_ymd_opt(date_year(t), r.val[2], r.val[1]))

dd_mm_only(i, t) == dd_mm_only_date(dd_mm(i), t)

mm_dd(i) == separated_pair("mm", "separator", "dd", i)

mm_dd_only_date(r, t) ==
    IF ~r.ok THEN r
    ELSE Ok(r.rest, from_ymd_opt(date_year(t), r.val[1], r.val[2]))

mm_dd_only(i, t) == mm_dd_only_date(mm_dd(i), t)

\* variant: day and month are handed to from_ymd_opt the wrong way round
y4_mm_dd_date_swapped(r) ==
    IF ~r.ok THEN r
    ELSE Ok(r.rest, from_ymd_opt(r.val[1], r.val[5], r.val[3]))

\* a year of at most four characters is the same number as u32 and as i32
y4_mm_dd_date(r) ==
    IF ~r.ok THEN r
    ELSE Ok(r.rest, from_ymd_opt(r.val[1], r.val[3], r.val[5]))

y4_mm_dd(i) ==
    y4_mm_dd_date(tuple(<<"y4", "separator", "mm", "separator", "dd">>, i))

\* variant: a date that does not exist is reported as Error::NonExistentDate
dd_mm_y4_date_strict(r) ==
    IF ~r.ok THEN r
    ELSE IF ~from_ymd_opt(r.val[5], r.val[3], r.val[1]).some
         THEN Err([kind |-> "NonExistentDate"])
         ELSE Ok(r.rest, from_ymd_opt(r.val[5], r.val[3], r.val[1]))

dd_mm_y4_date(r) ==
    IF ~r.ok THEN r
    ELSE Ok(r.rest, from_ymd_opt(r.val[5], r.val[3], r.val[1]))

dd_mm_y4(i) ==
    dd_mm_y4_date(tuple(<<"dd", "separator", "mm", "separator", "y4">>, i))

\* variant: the fields are handed to from_ymd_opt in input order
mm_dd_y4_date_input_order(r) ==
    IF ~r.ok THEN r
    ELSE Ok(r.rest, from_ymd_opt(r.val[5], r.val[3], r.val[1]))

mm_dd_y4_date(r) ==
    IF ~r.ok THEN r
    ELSE Ok(r.rest, from_ymd_opt(r.val[5], r.val[1], r.val[3]))

mm_dd_y4(i) ==
    mm_dd_y4_date(tuple(<<"mm", "separator", "dd", "separator", "y4">>, i))

----------------------------------------------------------------------------
(* src/src/i18n.rs.  chrono::Weekday as i64.                                *)

Mon == 0

Tue == 1

Wed == 2

Thu == 3

Fri == 4

Sat == 5

Sun == 6

\* the date of the weekday in the week of t, before the final unwrap()
\* naive_date_for_weekday giving the next such weekday from today on
naive_date_for_weekday_ahead(wd, t) == checked_add_signed(t, (wd - weekday(t)) % 7)

\* naive_date_for_weekday with the requested weekday counted from one
naive_date_for_weekday_from_one(wd, t) == checked_add_signed(t, wd + 1 - weekday(t))

naive_date_for_weekday(wd, t) == checked_add_signed(t, wd - weekday(t))

\* value(x.unwrap(), parser): the value is computed before the parser runs,
\* and the call panics when x is None
unwrapped_value(x, r) == IF ~x.some THEN Panic ELSE value(x.v, r)

\* parser(input).map(|r| (r.0, Some(r.1))): the *_opt wrappers
opt(r) == IF r.ok THEN Ok(r.rest, Some(r.val)) ELSE r

\* x.unwrap() as the value of a result that leaves what r left
unwrapped_at(r, x) == IF ~x.some THEN Panic ELSE Ok(r.rest, x.v)

\* nom::sequence::terminated(parser, tag(".")), after the parser has
\* returned r: the dot is looked for in what r left and is dropped
terminated_by_dot(r) ==
    IF ~r.ok THEN r
    ELSE IF tag(<<".">>, r.rest).ok THEN Ok(tag(<<".">>, r.rest).rest, r.val)
    ELSE tag(<<".">>, r.rest)

\* map_res(named_weekday, |weekday| Ok(naive_date_for_weekday(weekday)))
for_weekday(r, t) ==
    IF ~r.ok THEN r ELSE unwrapped_at(r, naive_date_for_weekday(r.val, t))

----------------------------------------------------------------------------
(* src/src/i18n/en.rs                                                      *)

en_yesterday(i, t) ==
    unwrapped_value(checked_sub_days(t, <<"1">>),
                    tag_no_case(<<"y", "e", "s", "t", "e", "r", "d", "a", "y">>, i))

en_yesterday_opt(i, t) == opt(en_yesterday(i, t))

en_tomorrow(i, t) ==
    unwrapped_value(checked_add_days(t, <<"1">>),
                    tag_no_case(<<"t", "o", "m", "o", "r", "r", "o", "w">>, i))

en_tomorrow_opt(i, t) == opt(en_tomorrow(i, t))

en_short_named_weekday(i) ==
    alt(value(Mon, tag_no_case(<<"m", "o", "n">>, i)),
    alt(value(Tue, tag_no_case(<<"t", "u", "e">>, i)),
    alt(value(Tue, tag_no_case(<<"t", "u", "e", "s">>, i)),
    alt(value(Wed, tag_no_case(<<"w", "e", "d">>, i)),
    alt(value(Thu, tag_no_case(<<"t", "h", "u">>, i)),
    alt(value(Thu, tag_no_case(<<"t", "h", "u", "r">>, i)),
    alt(value(Thu, tag_no_case(<<"t", "h", "u", "r", "s">>, i)),
    alt(value(Fri, tag_no_case(<<"f", "r", "i">>, i)),
    alt(value(Sat, tag_no_case(<<"s", "a", "t">>, i)),
        value(Sun, tag_no_case(<<"s", "u", "n">>, i)))))))))))

en_full_named_weekday(i) ==
    alt(value(Mon, tag_no_case(<<"m", "o", "n", "d", "a", "y">>, i)),
    alt(value(Tue, tag_no_case(<<"t", "u", "e", "s", "d", "a", "y">>, i)),
    alt(value(Wed, tag_no_case(<<"w", "e", "d", "n", "e", "s", "d", "a", "y">>, i)),
    alt(value(Thu, tag_no_case(<<"t", "h", "u", "r", "s", "d", "a", "y">>, i)),
    alt(value(Fri, tag_no_case(<<"f", "r", "i", "d", "a", "y">>, i)),
    alt(value(Sat, tag_no_case(<<"s", "a", "t", "u", "r", "d", "a", "y">>, i)),
        value(Sun, tag_no_case(<<"s", "u", "n", "d", "a", "y">>, i))))))))

en_named_weekday(i) == alt(en_full_named_weekday(i), en_short_named_weekday(i))

\* src/src/i18n/en/weekday.rs, a file en.rs does not declare as a module:
\* the short name with a dot, and named_weekday with it as second parser
en_short_named_weekday_dot(i) == terminated_by_dot(en_short_named_weekday(i))

en_weekday_named_weekday(i) ==
    alt(en_full_named_weekday(i),
    alt(en_short_named_weekday_dot(i),
        en_short_named_weekday(i)))

en_current_named_weekday_only(i, t) == for_weekday(en_named_weekday(i), t)

en_current_named_weekday_only_opt(i, t) ==
    opt(en_current_named_weekday_only(i, t))

\* bundle_dmy with day-only tried before the full date
bundle_dmy_day_first(i, t) ==
    alt(dd_only(i, t),
    alt(dd_mm_only(i, t),
    alt(dd_mm_y4(i),
    alt(en_yesterday_opt(i, t),
    alt(en_tomorrow_opt(i, t),
        en_current_named_weekday_only_opt(i, t))))))

\* variant: an alt that goes on from where its first parser gave up instead
\* of from the text it was given
bundle_dmy_resuming(i, t) ==
    alt(dd_mm_y4(i),
    alt(dd_mm_only(IF dd_mm_y4(i).err.kind = "Nom" THEN dd_mm_y4(i).err.at ELSE i, t),
    alt(dd_only(i, t),
    alt(en_yesterday_opt(i, t),
    alt(en_tomorrow_opt(i, t),
        en_current_named_weekday_only_opt(i, t))))))

bundle_dmy(i, t) ==
    alt(dd_mm_y4(i),
    alt(dd_mm_only(i, t),
    alt(dd_only(i, t),
    alt(en_yesterday_opt(i, t),
    alt(en_tomorrow_opt(i, t),
        en_current_named_weekday_only_opt(i, t))))))

bundle_mdy(i, t) ==
    alt(mm_dd_y4(i),
    alt(mm_dd_only(i, t),
    alt(dd_only(i, t),
    alt(en_yesterday_opt(i, t),
    alt(en_tomorrow_opt(i, t),
        en_current_named_weekday_only_opt(i, t))))))

----------------------------------------------------------------------------
(* src/src/i18n/ru.rs, and today of src/src/i18n/ru/relative.rs            *)

ru_day_before_yesterday(i, t) ==
    unwrapped_value(checked_sub_days(t, <<"2">>),
                    tag_no_case(Ru(<<"p", "o", "z", "a", "v", "ch", "e", "r", "a">>), i))

ru_day_before_yesterday_opt(i, t) == opt(ru_day_before_yesterday(i, t))

ru_yesterday(i, t) ==
    unwrapped_value(checked_sub_days(t, <<"1">>),
                    tag_no_case(Ru(<<"v", "ch", "e", "r", "a">>), i))

ru_yesterday_opt(i, t) == opt(ru_yesterday(i, t))

\* today of src/src/i18n/ru/relative.rs: Local::now().date_naive() needs no
\* date arithmetic.  That file holds its Russian literals in a doubly
\* encoded form; the literal is written here as the word it stands for
ru_today(i, t) ==
    value(t, tag_no_case(Ru(<<"s", "e", "g", "o", "d", "n", "ya">>), i))

ru_tomorrow(i, t) ==
    unwrapped_value(checked_add_days(t, <<"1">>),
                    tag_no_case(Ru(<<"z", "a", "v", "t", "r", "a">>), i))

ru_tomorrow_opt(i, t) == opt(ru_tomorrow(i, t))

ru_day_after_tomorrow(i, t) ==
    unwrapped_value(checked_add_days(t, <<"2">>),
                    tag_no_case(Ru(<<"p", "o", "s", "l", "e", "z", "a", "v", "t", "r", "a">>), i))

ru_day_after_tomorrow_opt(i, t) == opt(ru_day_after_tomorrow(i, t))

ru_short_named_weekday(i) ==
    alt(value(Mon, tag_no_case(Ru(<<"p", "n">>), i)),
    alt(value(Tue, tag_no_case(Ru(<<"v", "t">>), i)),
    alt(value(Wed, tag_no_case(Ru(<<"s", "r">>), i)),
    alt(value(Thu, tag_no_case(Ru(<<"ch", "t">>), i)),
    alt(value(Fri, tag_no_case(Ru(<<"p", "t">>), i)),
    alt(value(Sat, tag_no_case(Ru(<<"s", "b">>), i)),
        value(Sun, tag_no_case(Ru(<<"v", "s">>), i))))))))

ru_full_named_weekday(i) ==
    alt(value(Mon, tag_no_case(Ru(<<"p", "o", "n", "e", "d", "e", "l", "soft", "n", "i", "k">>), i)),
    alt(value(Tue, tag_no_case(Ru(<<"v", "t", "o", "r", "n", "i", "k">>), i)),
    alt(value(Wed, tag_no_case(Ru(<<"s", "r", "e", "d", "a">>), i)),
    alt(value(Thu, tag_no_case(Ru(<<"ch", "e", "t", "v", "e", "r", "g">>), i)),
    alt(value(Fri, tag_no_case(Ru(<<"p", "ya", "t", "n", "i", "c", "a">>), i)),
    alt(value(Sat, tag_no_case(Ru(<<"s", "u", "b", "b", "o", "t", "a">>), i)),
        value(Sun, tag_no_case(Ru(<<"v", "o", "s", "k", "r", "e", "s", "e", "n", "soft", "e">>), i))))))))

ru_named_weekday(i) == alt(ru_full_named_weekday(i), ru_short_named_weekday(i))

\* src/src/i18n/ru/weekday.rs, a file ru.rs does not declare as a module
ru_short_named_weekday_dot(i) == terminated_by_dot(ru_short_named_weekday(i))

ru_weekday_named_weekday(i) ==
    alt(ru_full_named_weekday(i),
    alt(ru_short_named_weekday_dot(i),
        ru_short_named_weekday(i)))

ru_current_named_weekday_only(i, t) == for_weekday(ru_named_weekday(i), t)

ru_current_named_weekday_only_opt(i, t) ==
    opt(ru_current_named_weekday_only(i, t))

ru_bundle(i, t) ==
    alt(dd_mm_y4(i),
    alt(dd_mm_only(i, t),
    alt(dd_only(i, t),
    alt(ru_day_before_yesterday_opt(i, t),
    alt(ru_yesterday_opt(i, t),
    alt(ru_tomorrow_opt(i, t),
    alt(ru_day_after_tomorrow_opt(i, t),
        ru_current_named_weekday_only_opt(i, t))))))))

----------------------------------------------------------------------------
(* src/src/quick.rs                                                        *)

\* nom::character::complete::space0: zero or more of ' ' and '\t'
space0(i) == Ok(Drop(i, SpaceRun(i)), Take(i, SpaceRun(i)))

RECURSIVE DigitRun(_)
DigitRun(i) ==
    IF i # <<>> /\ IsDigit(Head(i)) THEN 1 + DigitRun(Tail(i)) ELSE 0

\* nom::character::complete::digit1: one or more decimal digits
digit1(i) ==
    IF DigitRun(i) = 0 THEN Err(Nom(i, "Digit"))
    ELSE Ok(Drop(i, DigitRun(i)), Take(i, DigitRun(i)))

\* str::parse::<u64>() of a text of digits
parse_u64(s) ==
    IF numeral_less(U64_MAX, numeral(s)) THEN [ok |-> FALSE, cause |-> "PosOverflow"]
    ELSE [ok |-> TRUE, val |-> numeral(s)]

\* map_res(digit1, |s: &str| s.parse::<u64>()), after digit1 has returned r
parse_digits(i, r) == IF ~r.ok THEN r ELSE map_res(i, r, parse_u64(r.val))

digit1_u64(i) == parse_digits(i, digit1(i))

\* what follows the sign in tuple((tag(sign), space0, map_res(..))), after
\* tag(sign) has returned r; space0 never fails
after_sign(r) == IF ~r.ok THEN r ELSE digit1_u64(space0(r.rest).rest)

sign_and_days(sign, i) == after_sign(tag(sign, i))

\* Local::now().add(Days::new(n)).date_naive(): Add panics on None
forward_date(r, t) ==
    IF ~r.ok THEN r ELSE unwrapped_at(r, checked_add_days(t, r.val))

forward_from_now(i, t) == forward_date(sign_and_days(<<"+">>, i), t)

\* Local::now().sub(Days::new(n)).date_naive(): Sub panics on None
backward_date(r, t) ==
    IF ~r.ok THEN r ELSE unwrapped_at(r, checked_sub_days(t, r.val))

backward_from_now(i, t) == backward_date(sign_and_days(<<"-">>, i), t)

quick_bundle(i, t) == alt(forward_from_now(i, t), backward_from_now(i, t))

----------------------------------------------------------------------------
(* src/examples/cli.rs                                                     *)

\* versatile_parser with the day-first bundle tried before the quick patterns
versatile_parser_locale_first(i, t) == alt(bundle_dmy(i, t), quick_bundle(i, t))

versatile_parser(i, t) == alt(quick_bundle(i, t), bundle_dmy(i, t))

----------------------------------------------------------------------------
(* The caller: the texts it hands over                                     *)

\* a number written with one, two and four digits
Fmt1(n) == <<Digits[n + 1]>>

Fmt2(n) == <<Digits[(n \div 10) + 1], Digits[(n % 10) + 1]>>

Fmt4(n) == Fmt2(n \div 100) \o Fmt2(n % 100)

NoFields ==
    [D |-> <<>>, M |-> <<>>, Y |-> <<>>, s1 |-> <<>>, s2 |-> <<>>, tail |-> <<>>]

Pieces(d, m, y, a, b, t) ==
    [D |-> d, M |-> m, Y |-> y, s1 |-> a, s2 |-> b, tail |-> t]

\* the text of a composite input, in each field order
Text_ymd(f) == f.Y \o f.s1 \o f.M \o f.s2 \o f.D \o f.tail

Text_dmy(f) == f.D \o f.s1 \o f.M \o f.s2 \o f.Y \o f.tail

Text_mdy(f) == f.M \o f.s1 \o f.D \o f.s2 \o f.Y \o f.tail

Text_dm(f) == f.D \o f.s1 \o f.M \o f.tail

Text_md(f) == f.M \o f.s1 \o f.D \o f.tail

FieldAlphabet == {"0", "1", "2", "3", "4", "9", "+", "-", "/", "a"}

SepAlphabet == {"/", "-", ".", " ", "\t", "\n", "a", "1"}

YearAlphabet == {"0", "1", "2", "4", "+", "a"}

FieldTexts == TextsUpTo(FieldAlphabet, MaxTextLen)

SepTexts == TextsUpTo(SepAlphabet, MaxTextLen)

YearTexts == TextsUpTo(YearAlphabet, MaxYearTextLen)

Slash == <<"/">>

SymbolSeparators == {<<"/">>, <<"-">>, <<".">>}

FourSpaces == <<" ", " ", " ", " ">>

\* the separators the recognizers accept: a symbol, or a run of spaces and tabs
AcceptedSeparators ==
    SymbolSeparators
        \cup (TextsUpTo({" ", "\t"}, MaxSepRun) \ {<<>>})
        \cup {FourSpaces}

\* and two texts that are no separator
Separators == AcceptedSeparators \cup {<<>>, <<"\n">>}

Tails == {<<>>, <<"a">>, <<"1">>}

Years == {0, 4, 100, 1900, 2000, 2023, 2024, 9999}

\* every day and month number with every sampled year, "/" between the fields
CalendarFields ==
    {Pieces(Fmt2(d), Fmt2(m), Fmt4(y), Slash, Slash, <<>>) :
        d \in 0..MaxDayValue, m \in 0..MaxMonthValue, y \in Years}

\* every pair of separators around a few fields, with and without a tail
SeparatorFields ==
    {Pieces(d, m, Fmt4(2024), a, b, t) :
        d \in {Fmt2(13), Fmt1(3)}, m \in {Fmt2(6), Fmt1(6)},
        a \in Separators, b \in Separators, t \in Tails}

\* field texts that are not plain digits of the expected width
OddFields ==
    {Pieces(d, m, y, Slash, Slash, t) :
        d \in {<<"+", "5">>, <<"5", "a">>, <<"a">>, <<>>, <<"1", "2", "3">>, <<"-", "5">>},
        m \in {Fmt2(6), <<"+", "6">>, <<"1", "a">>},
        y \in {Fmt4(2024), <<"+", "0", "2", "4">>, <<"2", "0", "a", "4">>, <<"2", "0", "2">>},
        t \in {<<>>, <<"1">>}}

\* the inputs written out in the tests and the documentation
ExampleFields ==
    {Pieces(Fmt2(d), Fmt2(2), Fmt4(2024), <<"-">>, <<"-">>, <<>>) : d \in {31, 32}}
        \cup {Pieces(Fmt2(13), Fmt2(6), Fmt4(2024), FourSpaces, <<"\t">>, <<>>)}

Fields3 == CalendarFields \cup SeparatorFields \cup OddFields \cup ExampleFields

\* two-field inputs: the same, without the year and the second separator
Fields2 ==
    {[f EXCEPT !.Y = <<>>, !.s2 = <<>>] :
        f \in {g \in Fields3 : g.Y = Fmt4(2024) /\ g.s2 = Slash}}

\* the dates Local::now() may return
Todays ==
    {from_ymd_opt(2024, 7, 16).v, from_ymd_opt(2024, 2, 29).v,
     from_ymd_opt(2023, 2, 10).v, from_ymd_opt(2024, 4, 30).v}

\* a word as the tests write it: in small letters, with a capital first
\* letter, and in capital letters
to_capital(c) ==
    IF \E k \in 1..Len(SmallLetters) : SmallLetters[k] = c
    THEN CapitalLetters[CHOOSE k \in 1..Len(SmallLetters) : SmallLetters[k] = c]
    ELSE c

Capitalized(w) == <<to_capital(Head(w))>> \o Tail(w)

AllCapitals(w) == [k \in 1..Len(w) |-> to_capital(w[k])]

Casings(w) == {w, Capitalized(w), AllCapitals(w)}

EnRelativeWords ==
    {<<"y", "e", "s", "t", "e", "r", "d", "a", "y">>,
     <<"t", "o", "m", "o", "r", "r", "o", "w">>}

EnShortWeekdays ==
    {<<"m", "o", "n">>, <<"t", "u", "e">>, <<"t", "u", "e", "s">>,
     <<"w", "e", "d">>, <<"t", "h", "u">>, <<"t", "h", "u", "r">>,
     <<"t", "h", "u", "r", "s">>, <<"f", "r", "i">>, <<"s", "a", "t">>,
     <<"s", "u", "n">>}

EnFullWeekdays ==
    {<<"m", "o", "n", "d", "a", "y">>, <<"t", "u", "e", "s", "d", "a", "y">>,
     <<"w", "e", "d", "n", "e", "s", "d", "a", "y">>,
     <<"t", "h", "u", "r", "s", "d", "a", "y">>, <<"f", "r", "i", "d", "a", "y">>,
     <<"s", "a", "t", "u", "r", "d", "a", "y">>, <<"s", "u", "n", "d", "a", "y">>}

RuRelativeWords ==
    {Ru(<<"p", "o", "z", "a", "v", "ch", "e", "r", "a">>),
     Ru(<<"v", "ch", "e", "r", "a">>),
     Ru(<<"s", "e", "g", "o", "d", "n", "ya">>),
     Ru(<<"z", "a", "v", "t", "r", "a">>),
     Ru(<<"p", "o", "s", "l", "e", "z", "a", "v", "t", "r", "a">>)}

RuShortWeekdays ==
    {Ru(<<"p", "n">>), Ru(<<"v", "t">>), Ru(<<"s", "r">>), Ru(<<"ch", "t">>),
     Ru(<<"p", "t">>), Ru(<<"s", "b">>), Ru(<<"v", "s">>)}

RuFullWeekdays ==
    {Ru(<<"p", "o", "n", "e", "d", "e", "l", "soft", "n", "i", "k">>),
     Ru(<<"v", "t", "o", "r", "n", "i", "k">>),
     Ru(<<"s", "r", "e", "d", "a">>),
     Ru(<<"ch", "e", "t", "v", "e", "r", "g">>),
     Ru(<<"p", "ya", "t", "n", "i", "c", "a">>),
     Ru(<<"s", "u", "b", "b", "o", "t", "a">>),
     Ru(<<"v", "o", "s", "k", "r", "e", "s", "e", "n", "soft", "e">>)}

\* what may follow a word
WordTails == {<<>>, <<".">>, <<" ", "1">>}

\* every word in every casing with every tail, every word without its last
\* letter, and two texts that hold no word
WordTexts(words) ==
    {c \o t : c \in UNION {Casings(w) : w \in words}, t \in WordTails}
        \cup {Take(w, Len(w) - 1) : w \in words}
        \cup {<<>>, <<"x">>}

EnWordTexts == WordTexts(EnRelativeWords \cup EnShortWeekdays \cup EnFullWeekdays)

RuWordTexts == WordTexts(RuRelativeWords \cup RuShortWeekdays \cup RuFullWeekdays)

\* numeric texts for the bundles: the composite inputs of the year 2024
\* and the single fields, in day-first and in month-first order
BundleFields == {f \in Fields3 : f.Y \notin {Fmt4(y) : y \in Years \ {2024}}}

NumericTexts_dmy ==
    {Text_dmy(f) : f \in BundleFields} \cup {Text_dm(f) : f \in Fields2}
        \cup FieldTexts

NumericTexts_mdy ==
    {Text_mdy(f) : f \in BundleFields} \cup {Text_md(f) : f \in Fields2}
        \cup FieldTexts

\* the texts for the quick patterns: a sign or none, blanks, a number, a tail
QuickSigns == {<<"+">>, <<"-">>, <<>>}

QuickBlanks == {<<>>, <<" ">>, <<"\t">>, <<" ", " ", " ">>, <<"\n">>}

QuickNumbers ==
    {<<>>, <<"0">>, <<"1">>, <<"1", "0">>, <<"4", "2">>, <<"0", "4", "2">>,
     <<"1", "2", "3">>, <<"3", "6", "6">>,
     <<"9", "0", "0", "0", "0", "0", "0", "0">>,
     <<"9", "9", "9", "9", "9", "9", "9", "9">>,
     I32_MAX_numeral, U64_MAX,
     <<"1", "8", "4", "4", "6", "7", "4", "4", "0", "7",
       "3", "7", "0", "9", "5", "5", "1", "6", "1", "6">>}

QuickTails == {<<>>, <<"a">>, <<" ", "1">>}

QuickTexts ==
    {s \o b \o n \o t :
        s \in QuickSigns, b \in QuickBlanks, n \in QuickNumbers, t \in QuickTails}

\* the dates Local::now() may return to the word and quick recognizers: the
\* days of one week, and weeks that reach into another month or year
WeekTodays ==
    {from_ymd_opt(2024, 7, d).v : d \in 15..21}
        \cup {from_ymd_opt(2023, 1, 1).v, from_ymd_opt(2024, 1, 1).v,
              from_ymd_opt(2024, 2, 29).v, from_ymd_opt(2024, 12, 31).v}

\* Weekday::Mon .. Weekday::Sun as the caller writes them
WeekdayNames ==
    <<<<"M", "o", "n">>, <<"T", "u", "e">>, <<"W", "e", "d">>, <<"T", "h", "u">>,
      <<"F", "r", "i">>, <<"S", "a", "t">>, <<"S", "u", "n">>>>


----------------------------------------------------------------------------
(* The caller: one call at a time                                          *)

\* the callers that may be inside a recognizer at the same time
Threads == {"a", "b"}

\* a caller: where it is, the function it called with its &str, the number
\* of the alternative or component that runs next and the numbers run so
\* far, the rest of the text and the values of a tuple, the date the call
\* last read, and what the call returned
Caller(d, f, i, n, l, c, p, s, r) ==
    [doing |-> d, callee |-> f, given |-> i, attempt |-> n, log |-> l,
     cursor |-> c, parts |-> p, seen |-> s, answer |-> r]

CallerIdle ==
    Caller("idle", "", <<>>, 0, <<>>, <<>>, <<>>, None, Err([kind |-> "idle"]))

\* the date of the system clock when the callers start, the last day of a
\* month
FirstDay == from_ymd_opt(2024, 2, 29).v

Init ==
    /\ call = "idle"
    /\ fields = NoFields
    /\ input = <<>>
    /\ now = None
    /\ outcome = Err([kind |-> "idle"])
    /\ wall = FirstDay
    /\ callers = [c \in Threads |-> CallerIdle]

\* dd_only, dd_mm_only and mm_dd_only read the clock after their fields are
\* recognized, and only then; clock is None for the recognizers that never
\* read it
ClockRead(r, clock) == IF r.ok THEN clock ELSE None

\* recognizer name, called on text i built from the pieces f, returns r;
\* clock is what Local::now() gives the call if it asks
Returns(name, f, i, clock, r) ==
    /\ call' = name
    /\ fields' = f
    /\ input' = i
    /\ now' = ClockRead(r, clock)
    /\ outcome' = r
    /\ UNCHANGED <<wall, callers>>

Call_separator ==
    /\ call = "idle"
    /\ \E i \in SepTexts :
           Returns("numeric_date_parts_separator", NoFields, i, None,
                   numeric_date_parts_separator(i))

Call_dd ==
    /\ call = "idle"
    /\ \E i \in FieldTexts : Returns("dd", NoFields, i, None, dd(i))

Call_mm ==
    /\ call = "idle"
    /\ \E i \in FieldTexts : Returns("mm", NoFields, i, None, mm(i))

Call_y4 ==
    /\ call = "idle"
    /\ \E i \in YearTexts : Returns("y4", NoFields, i, None, y4(i))

Call_dd_only ==
    /\ call = "idle"
    /\ \E i \in FieldTexts, t \in Todays :
           Returns("dd_only", NoFields, i, Some(t), dd_only(i, t))

Call_dd_mm_only ==
    /\ call = "idle"
    /\ \E f \in Fields2, t \in Todays :
           Returns("dd_mm_only", f, Text_dm(f), Some(t),
                   dd_mm_only(Text_dm(f), t))

Call_mm_dd_only ==
    /\ call = "idle"
    /\ \E f \in Fields2, t \in Todays :
           Returns("mm_dd_only", f, Text_md(f), Some(t),
                   mm_dd_only(Text_md(f), t))

Call_y4_mm_dd ==
    /\ call = "idle"
    /\ \E f \in Fields3 :
           Returns("y4_mm_dd", f, Text_ymd(f), None, y4_mm_dd(Text_ymd(f)))

Call_dd_mm_y4 ==
    /\ call = "idle"
    /\ \E f \in Fields3 :
           Returns("dd_mm_y4", f, Text_dmy(f), None, dd_mm_y4(Text_dmy(f)))

Call_mm_dd_y4 ==
    /\ call = "idle"
    /\ \E f \in Fields3 :
           Returns("mm_dd_y4", f, Text_mdy(f), None, mm_dd_y4(Text_mdy(f)))

----------------------------------------------------------------------------
(* The caller: calls of the word recognizers, the bundles and the quick     *)
(* patterns                                                                *)

\* recognizer name, called on text i, returns r; clock is what the call
\* read from Local::now(), None when it did not read it
Observes(name, i, clock, r) ==
    /\ call' = name
    /\ fields' = NoFields
    /\ input' = i
    /\ now' = clock
    /\ outcome' = r
    /\ UNCHANGED <<wall, callers>>

\* a bundle reads the clock unless its first alternative, which reads no
\* clock, succeeds: the partial dates read it when their fields are
\* recognized, and the word recognizers read it before they look at the text
bundle_clock(first, t) == IF first.ok THEN None ELSE Some(t)

quick_clock(i, t) ==
    IF sign_and_days(<<"+">>, i).ok \/ sign_and_days(<<"-">>, i).ok
    THEN Some(t) ELSE None

versatile_clock(i, t) ==
    IF quick_clock(i, t).some THEN Some(t) ELSE bundle_clock(dd_mm_y4(i), t)

\* the NaiveDate a function returns, or the panic of its unwrap()
unwrap(x) == IF x.some THEN Ok(<<>>, x.v) ELSE Panic

Call_naive_date_for_weekday ==
    /\ call = "idle"
    /\ \E wd \in Mon..Sun, t \in WeekTodays :
           Observes("naive_date_for_weekday", WeekdayNames[wd + 1], Some(t),
                    unwrap(naive_date_for_weekday(wd, t)))

Call_en_yesterday ==
    /\ call = "idle"
    /\ \E i \in EnWordTexts, t \in WeekTodays :
           Observes("en::yesterday", i, Some(t),
                    en_yesterday(i, t))

Call_en_yesterday_opt ==
    /\ call = "idle"
    /\ \E i \in EnWordTexts, t \in WeekTodays :
           Observes("en::yesterday_opt", i, Some(t),
                    en_yesterday_opt(i, t))

Call_en_tomorrow ==
    /\ call = "idle"
    /\ \E i \in EnWordTexts, t \in WeekTodays :
           Observes("en::tomorrow", i, Some(t),
                    en_tomorrow(i, t))

Call_en_tomorrow_opt ==
    /\ call = "idle"
    /\ \E i \in EnWordTexts, t \in WeekTodays :
           Observes("en::tomorrow_opt", i, Some(t),
                    en_tomorrow_opt(i, t))

Call_en_short_named_weekday ==
    /\ call = "idle"
    /\ \E i \in EnWordTexts :
           Observes("en::short_named_weekday", i, None,
                    en_short_named_weekday(i))

Call_en_full_named_weekday ==
    /\ call = "idle"
    /\ \E i \in EnWordTexts :
           Observes("en::full_named_weekday", i, None,
                    en_full_named_weekday(i))

Call_en_named_weekday ==
    /\ call = "idle"
    /\ \E i \in EnWordTexts :
           Observes("en::named_weekday", i, None,
                    en_named_weekday(i))

Call_en_weekday_named_weekday ==
    /\ call = "idle"
    /\ \E i \in EnWordTexts :
           Observes("en::weekday::named_weekday", i, None,
                    en_weekday_named_weekday(i))

Call_en_current_named_weekday_only ==
    /\ call = "idle"
    /\ \E i \in EnWordTexts, t \in WeekTodays :
           Observes("en::current_named_weekday_only", i, ClockRead(en_named_weekday(i), Some(t)),
                    en_current_named_weekday_only(i, t))

Call_en_current_named_weekday_only_opt ==
    /\ call = "idle"
    /\ \E i \in EnWordTexts, t \in WeekTodays :
           Observes("en::current_named_weekday_only_opt", i, ClockRead(en_named_weekday(i), Some(t)),
                    en_current_named_weekday_only_opt(i, t))

Call_ru_day_before_yesterday ==
    /\ call = "idle"
    /\ \E i \in RuWordTexts, t \in WeekTodays :
           Observes("ru::day_before_yesterday", i, Some(t),
                    ru_day_before_yesterday(i, t))

Call_ru_day_before_yesterday_opt ==
    /\ call = "idle"
    /\ \E i \in RuWordTexts, t \in WeekTodays :
           Observes("ru::day_before_yesterday_opt", i, Some(t),
                    ru_day_before_yesterday_opt(i, t))

Call_ru_yesterday ==
    /\ call = "idle"
    /\ \E i \in RuWordTexts, t \in WeekTodays :
           Observes("ru::yesterday", i, Some(t),
                    ru_yesterday(i, t))

Call_ru_yesterday_opt ==
    /\ call = "idle"
    /\ \E i \in RuWordTexts, t \in WeekTodays :
           Observes("ru::yesterday_opt", i, Some(t),
                    ru_yesterday_opt(i, t))

Call_ru_tomorrow ==
    /\ call = "idle"
    /\ \E i \in RuWordTexts, t \in WeekTodays :
           Observes("ru::tomorrow", i, Some(t),
                    ru_tomorrow(i, t))

Call_ru_tomorrow_opt ==
    /\ call = "idle"
    /\ \E i \in RuWordTexts, t \in WeekTodays :
           Observes("ru::tomorrow_opt", i, Some(t),
                    ru_tomorrow_opt(i, t))

Call_ru_day_after_tomorrow ==
    /\ call = "idle"
    /\ \E i \in RuWordTexts, t \in WeekTodays :
           Observes("ru::day_after_tomorrow", i, Some(t),
                    ru_day_after_tomorrow(i, t))

Call_ru_day_after_tomorrow_opt ==
    /\ call = "idle"
    /\ \E i \in RuWordTexts, t \in WeekTodays :
           Observes("ru::day_after_tomorrow_opt", i, Some(t),
                    ru_day_after_tomorrow_opt(i, t))

Call_ru_today ==
    /\ call = "idle"
    /\ \E i \in RuWordTexts, t \in WeekTodays :
           Observes("ru::today", i, Some(t),
                    ru_today(i, t))

Call_ru_short_named_weekday ==
    /\ call = "idle"
    /\ \E i \in RuWordTexts :
           Observes("ru::short_named_weekday", i, None,
                    ru_short_named_weekday(i))

Call_ru_full_named_weekday ==
    /\ call = "idle"
    /\ \E i \in RuWordTexts :
           Observes("ru::full_named_weekday", i, None,
                    ru_full_named_weekday(i))

Call_ru_named_weekday ==
    /\ call = "idle"
    /\ \E i \in RuWordTexts :
           Observes("ru::named_weekday", i, None,
                    ru_named_weekday(i))

Call_ru_weekday_named_weekday ==
    /\ call = "idle"
    /\ \E i \in RuWordTexts :
           Observes("ru::weekday::named_weekday", i, None,
                    ru_weekday_named_weekday(i))

Call_ru_current_named_weekday_only ==
    /\ call = "idle"
    /\ \E i \in RuWordTexts, t \in WeekTodays :
           Observes("ru::current_named_weekday_only", i, ClockRead(ru_named_weekday(i), Some(t)),
                    ru_current_named_weekday_only(i, t))

Call_ru_current_named_weekday_only_opt ==
    /\ call = "idle"
    /\ \E i \in RuWordTexts, t \in WeekTodays :
           Observes("ru::current_named_weekday_only_opt", i, ClockRead(ru_named_weekday(i), Some(t)),
                    ru_current_named_weekday_only_opt(i, t))

Call_bundle_dmy ==
    /\ call = "idle"
    /\ \E i \in NumericTexts_dmy \cup EnWordTexts, t \in Todays :
           Observes("en::bundle_dmy", i, bundle_clock(dd_mm_y4(i), t),
                    bundle_dmy(i, t))

Call_bundle_mdy ==
    /\ call = "idle"
    /\ \E i \in NumericTexts_mdy \cup EnWordTexts, t \in Todays :
           Observes("en::bundle_mdy", i, bundle_clock(mm_dd_y4(i), t),
                    bundle_mdy(i, t))

Call_ru_bundle ==
    /\ call = "idle"
    /\ \E i \in NumericTexts_dmy \cup RuWordTexts, t \in Todays :
           Observes("ru::bundle", i, bundle_clock(dd_mm_y4(i), t),
                    ru_bundle(i, t))

Call_forward_from_now ==
    /\ call = "idle"
    /\ \E i \in QuickTexts, t \in WeekTodays :
           Observes("quick::forward_from_now", i, ClockRead(sign_and_days(<<"+">>, i), Some(t)),
                    forward_from_now(i, t))

Call_backward_from_now ==
    /\ call = "idle"
    /\ \E i \in QuickTexts, t \in WeekTodays :
           Observes("quick::backward_from_now", i, ClockRead(sign_and_days(<<"-">>, i), Some(t)),
                    backward_from_now(i, t))

Call_quick_bundle ==
    /\ call = "idle"
    /\ \E i \in QuickTexts, t \in WeekTodays :
           Observes("quick::bundle", i, quick_clock(i, t),
                    quick_bundle(i, t))

Call_versatile_parser ==
    /\ call = "idle"
    /\ \E i \in QuickTexts \cup NumericTexts_dmy \cup EnWordTexts, t \in Todays :
           Observes("versatile_parser", i, versatile_clock(i, t),
                    versatile_parser(i, t))

\* the caller has inspected the result and drops it
Return ==
    /\ call # "idle"
    /\ call' = "idle"
    /\ fields' = NoFields
    /\ input' = <<>>
    /\ now' = None
    /\ outcome' = Err([kind |-> "idle"])
    /\ UNCHANGED <<wall, callers>>

Next ==
    \/ Call_separator
    \/ Call_dd
    \/ Call_mm
    \/ Call_y4
    \/ Call_dd_only
    \/ Call_dd_mm_only
    \/ Call_mm_dd_only
    \/ Call_y4_mm_dd
    \/ Call_dd_mm_y4
    \/ Call_mm_dd_y4
    \/ Call_naive_date_for_weekday
    \/ Call_en_yesterday
    \/ Call_en_yesterday_opt
    \/ Call_en_tomorrow
    \/ Call_en_tomorrow_opt
    \/ Call_en_short_named_weekday
    \/ Call_en_full_named_weekday
    \/ Call_en_named_weekday
    \/ Call_en_weekday_named_weekday
    \/ Call_en_current_named_weekday_only
    \/ Call_en_current_named_weekday_only_opt
    \/ Call_ru_day_before_yesterday
    \/ Call_ru_day_before_yesterday_opt
    \/ Call_ru_yesterday
    \/ Call_ru_yesterday_opt
    \/ Call_ru_tomorrow
    \/ Call_ru_tomorrow_opt
    \/ Call_ru_day_after_tomorrow
    \/ Call_ru_day_after_tomorrow_opt
    \/ Call_ru_today
    \/ Call_ru_short_named_weekday
    \/ Call_ru_full_named_weekday
    \/ Call_ru_named_weekday
    \/ Call_ru_weekday_named_weekday
    \/ Call_ru_current_named_weekday_only
    \/ Call_ru_current_named_weekday_only_opt
    \/ Call_bundle_dmy
    \/ Call_bundle_mdy
    \/ Call_ru_bundle
    \/ Call_forward_from_now
    \/ Call_backward_from_now
    \/ Call_quick_bundle
    \/ Call_versatile_parser
    \/ Return

Spec == Init /\ [][Next]_vars

-----------------------------------------------------------------------------
(* Concurrent callers.  A call is taken apart into the steps of nom's alt   *)
(* and tuple: alt((a, b, ..))(input) applies its parsers one after the      *)
(* other to the same input until one does not fail, tuple((a, b, ..))       *)
(* applies each parser to what the one before left.  Each caller works on   *)
(* its own &str; the only thing the calls share is the system clock.        *)

\* the functions that are an alt, and those that are a tuple
AltCalls == {"dd", "quick::bundle", "en::bundle_dmy", "ru::bundle"}

TupleCalls == {"dd_mm_y4"}

\* the texts the concurrent callers hand over
StepTexts ==
    {<<"1", "3", "/", "0", "6", "/", "2", "0", "2", "4">>,
     <<"1", "3", "/", "0", "6">>, <<"4", "2">>, <<"+", "1", "0">>,
     <<"T", "o", "m", "o", "r", "r", "o", "w">>,
     Ru(<<"z", "a", "v", "t", "r", "a">>), <<"x">>}

\* the results of the parsers of the alt of function f on text i when the
\* clock shows t
alt_list(f, i, t) ==
    CASE f = "dd" -> <<take_parse(2, i), take_parse(1, i)>>
      [] f = "quick::bundle" -> <<forward_from_now(i, t), backward_from_now(i, t)>>
      [] f = "en::bundle_dmy" ->
             <<dd_mm_y4(i), dd_mm_only(i, t), dd_only(i, t),
               en_yesterday_opt(i, t), en_tomorrow_opt(i, t),
               en_current_named_weekday_only_opt(i, t)>>
      [] f = "ru::bundle" ->
             <<dd_mm_y4(i), dd_mm_only(i, t), dd_only(i, t),
               ru_day_before_yesterday_opt(i, t), ru_yesterday_opt(i, t),
               ru_tomorrow_opt(i, t), ru_day_after_tomorrow_opt(i, t),
               ru_current_named_weekday_only_opt(i, t)>>

\* the days the clock of the callers shows
WallDays == {FirstDay, checked_add_days(FirstDay, <<"1">>).v}

\* alt_list tabulated over the functions, texts and days of the callers
alt_results ==
    {<<f, i, t, alt_list(f, i, t)>> : f \in AltCalls, i \in StepTexts, t \in WallDays}

alt_result(f, i, t) ==
    (CHOOSE e \in alt_results : e[1] = f /\ e[2] = i /\ e[3] = t)[4]

\* what function f does with the result of its alt
after_alt(f, r) == IF f = "dd" THEN day_in_range(r) ELSE r

\* the parsers of the tuple of function f
tuple_list(f) ==
    CASE f = "dd_mm_y4" -> <<"dd", "separator", "mm", "separator", "y4">>

\* what function f does with the result of its tuple
after_tuple(f, r) == CASE f = "dd_mm_y4" -> dd_mm_y4_date(r)

\* the number of steps of the call of function f
steps(f) ==
    IF f \in AltCalls THEN Len(alt_result(f, <<"x">>, FirstDay)) ELSE Len(tuple_list(f))

\* the &str caller c handed over: the function's own argument
text_of_any(c) ==
    IF \E o \in Threads : callers[o].doing = "running"
    THEN callers[CHOOSE o \in Threads : callers[o].doing = "running"].given
    ELSE callers[c].given

text_of(c) == callers[c].given

\* caller c calls a function on a text
Start(c) ==
    /\ callers[c].doing = "idle"
    /\ \E f \in AltCalls \cup TupleCalls, i \in StepTexts :
           callers' = [callers EXCEPT ![c] =
               Caller("running", f, i, 1, <<>>, i, <<>>, None, Err([kind |-> "idle"]))]
    /\ UNCHANGED <<call, fields, input, now, outcome, wall>>

\* alt trying each parser that fails a second time before it goes on
alt_step_again(c, r) ==
    IF r.ok \/ panicked(r)
          \/ (callers[c].attempt = steps(callers[c].callee)
                 /\ Len(callers[c].log) # 2 * (callers[c].attempt - 1))
    THEN [callers[c] EXCEPT !.doing = "done",
                            !.log = Append(@, callers[c].attempt),
                            !.seen = Some(wall),
                            !.answer = after_alt(callers[c].callee, r)]
    ELSE IF Len(callers[c].log) = 2 * (callers[c].attempt - 1)
    THEN [callers[c] EXCEPT !.log = Append(@, callers[c].attempt),
                            !.seen = Some(wall)]
    ELSE [callers[c] EXCEPT !.attempt = @ + 1,
                            !.log = Append(@, callers[c].attempt),
                            !.seen = Some(wall)]

\* caller c, whose alt has come to result r of its next parser: alt returns
\* a success (and a panic ends the call), goes on after a failure, and
\* returns the failure of its last parser
alt_step(c, r) ==
    IF r.ok \/ panicked(r) \/ r.sev # "Error"
          \/ callers[c].attempt = steps(callers[c].callee)
    THEN [callers[c] EXCEPT !.doing = "done",
                            !.log = Append(@, callers[c].attempt),
                            !.seen = Some(wall),
                            !.answer = after_alt(callers[c].callee, r)]
    ELSE [callers[c] EXCEPT !.attempt = @ + 1,
                            !.log = Append(@, callers[c].attempt),
                            !.seen = Some(wall)]

TryAlternative(c) ==
    /\ callers[c].doing = "running"
    /\ callers[c].callee \in AltCalls
    /\ callers' = [callers EXCEPT ![c] =
           alt_step(c, alt_result(callers[c].callee, text_of(c), wall)[callers[c].attempt])]
    /\ UNCHANGED <<call, fields, input, now, outcome, wall>>

\* caller c, whose tuple has come to result r of its next parser: the `?`
\* returns a failure, the values are kept, and the function finishes after
\* the last parser
tuple_step(c, r) ==
    IF ~r.ok
    THEN [callers[c] EXCEPT !.doing = "done",
                            !.log = Append(@, callers[c].attempt),
                            !.answer = r]
    ELSE IF callers[c].attempt = steps(callers[c].callee)
    THEN [callers[c] EXCEPT !.doing = "done",
                            !.log = Append(@, callers[c].attempt),
                            !.cursor = r.rest,
                            !.parts = Append(@, r.val),
                            !.answer = after_tuple(callers[c].callee,
                                Ok(r.rest, Append(callers[c].parts, r.val)))]
    ELSE [callers[c] EXCEPT !.attempt = @ + 1,
                            !.log = Append(@, callers[c].attempt),
                            !.cursor = r.rest,
                            !.parts = Append(@, r.val)]

\* the text a tuple goes on from: the whole text at its first parser
rest_of(c) == IF callers[c].attempt = 1 THEN text_of(c) ELSE callers[c].cursor

RunComponent(c) ==
    /\ callers[c].doing = "running"
    /\ callers[c].callee \in TupleCalls
    /\ callers' = [callers EXCEPT ![c] =
           tuple_step(c, apply(tuple_list(callers[c].callee)[callers[c].attempt], rest_of(c)))]
    /\ UNCHANGED <<call, fields, input, now, outcome, wall>>

\* caller c has looked at the result and drops it
Finish(c) ==
    /\ callers[c].doing = "done"
    /\ callers' = [callers EXCEPT ![c] = CallerIdle]
    /\ UNCHANGED <<call, fields, input, now, outcome, wall>>

\* midnight passes
Tick ==
    /\ wall = FirstDay
    /\ wall' = checked_add_days(wall, <<"1">>).v
    /\ UNCHANGED <<call, fields, input, now, outcome, callers>>

NextThreads ==
    \/ \E c \in Threads : Start(c)
    \/ \E c \in Threads : TryAlternative(c)
    \/ \E c \in Threads : RunComponent(c)
    \/ \E c \in Threads : Finish(c)
    \/ Tick

\* a call that has started is run to its end
SpecThreads ==
    /\ Init
    /\ [][NextThreads]_vars
    /\ \A c \in Threads : WF_vars(TryAlternative(c) \/ RunComponent(c))

-----------------------------------------------------------------------------
(* Properties.  The helpers below restate what a claim says in its own     *)
(* terms; they use none of the recognizers above.                          *)

\* the length of the longest prefix of i made of characters of S
RunLength(i, S) ==
    CHOOSE n \in 0..Len(i) :
        /\ \A k \in 1..n : i[k] \in S
        /\ n = Len(i) \/ i[n + 1] \notin S

\* the leading day or month field of a text: its first one or two digits
FieldWidth(i) == IF RunLength(i, DigitChars) >= 2 THEN 2 ELSE RunLength(i, DigitChars)

FieldNumber(i) ==
    IF FieldWidth(i) = 2 THEN 10 * DigitVal(i[1]) + DigitVal(i[2])
    ELSE DigitVal(i[1])

\* what a successful call consumed
Consumed == Len(input) - Len(outcome.rest)

\* C1: on a text that starts with a one- or two-digit day field d, dd returns
\* d and the text after those digits when 1 <= d <= 31, and fails with
\* DayOutOfRange when d = 0 or d > 31; no month-aware bound is applied.
C1_DayFieldRange ==
    (call = "dd" /\ FieldWidth(input) > 0) =>
        LET d == FieldNumber(input)
        IN  IF 1 <= d /\ d <= 31
            THEN outcome = Ok(Drop(input, FieldWidth(input)), d)
            ELSE outcome = Err(DayOutOfRange)

\* C1 witness: dd("31") has returned 31 with nothing left
C1_Witness ==
    call = "dd" /\ input = <<"3", "1">> /\ outcome = Ok(<<>>, 31)

\* C2: on a text that starts with a one- or two-digit month field m, mm
\* returns m when 1 <= m <= 12 and fails with MonthOutOfRange otherwise.
C2_MonthFieldRange ==
    (call = "mm" /\ FieldWidth(input) > 0) =>
        LET m == FieldNumber(input)
        IN  IF 1 <= m /\ m <= 12
            THEN outcome = Ok(Drop(input, FieldWidth(input)), m)
            ELSE outcome = Err(MonthOutOfRange)

\* C2 witness: mm("12") has returned 12 with nothing left
C2_Witness ==
    call = "mm" /\ input = <<"1", "2">> /\ outcome = Ok(<<>>, 12)

RangeError == IF call = "dd" THEN DayOutOfRange ELSE MonthOutOfRange

RangeTop == IF call = "dd" THEN 31 ELSE 12

\* C3: dd and mm read two characters first.  They consume a single character
\* only when fewer than two are left or the second is not a digit; two leading
\* digits are always read together, and when their number is out of range the
\* call fails with the range error instead of falling back to the first digit.
C3_TwoThenOne ==
    call \in {"dd", "mm"} =>
        /\ (outcome.ok /\ Consumed = 1) => (Len(input) < 2 \/ ~IsDigit(input[2]))
        /\ RunLength(input, DigitChars) >= 2 =>
               LET n == 10 * DigitVal(input[1]) + DigitVal(input[2])
               IN  IF 1 <= n /\ n <= RangeTop
                   THEN outcome.ok /\ Consumed = 2 /\ outcome.val = n
                   ELSE outcome = Err(RangeError)

\* C3 witness: dd("3/9") has fallen back to one character: 3, with "/9" left
C3_Witness ==
    call = "dd" /\ input = <<"3", "/", "9">> /\ outcome = Ok(<<"/", "9">>, 3)

\* C4: whenever dd or mm succeeds, what it consumed is one or two characters,
\* all of them decimal digits; a text that starts with a non-digit such as '+'
\* is not accepted.
C4_OnlyDigitsConsumed ==
    (call \in {"dd", "mm"} /\ outcome.ok) =>
        /\ Consumed \in 1..2
        /\ \A k \in 1..Consumed : IsDigit(input[k])

\* C5: y4 fails with Nom(input, Eof) on fewer than four characters, returns
\* the value of the first four characters and leaves the rest when they are
\* all digits, and fails with an integer-parse failure when they are not.
C5_YearFourDigits ==
    call = "y4" =>
        IF Len(input) < 4 THEN outcome = Err(Nom(input, "Eof"))
        ELSE IF RunLength(input, DigitChars) >= 4
             THEN outcome =
                      Ok(Drop(input, 4),
                         1000 * DigitVal(input[1]) + 100 * DigitVal(input[2])
                             + 10 * DigitVal(input[3]) + DigitVal(input[4]))
             ELSE ~outcome.ok /\ outcome.err.kind = "ParseIntError"

SymbolChars == {"/", "-", "."}

WhitespaceChars == {" ", "\t", "\n"}

SpaceTabChars == {" ", "\t"}

\* the separator claim, for a given set of blank characters
SeparatorContract(blanks) ==
    call = "numeric_date_parts_separator" =>
        IF input # <<>> /\ input[1] \in SymbolChars
        THEN outcome.ok /\ outcome.rest = Tail(input)
        ELSE IF input # <<>> /\ input[1] \in blanks
             THEN outcome.ok /\ outcome.rest = Drop(input, RunLength(input, blanks))
             ELSE ~outcome.ok

\* C6 as stated: the separator succeeds exactly on a text that starts with
\* '/', '-', '.' or a whitespace character, and consumes the one symbol or
\* the whole run of whitespace.
C6_SeparatorAnyWhitespace == SeparatorContract(WhitespaceChars)

\* C6 amended: the separator succeeds exactly on a text that starts with
\* '/', '-', '.', a space or a tab, and consumes the one symbol or the whole
\* run of spaces and tabs; any other text, a line feed included, fails.
C6_SeparatorSpacesTabs == SeparatorContract(SpaceTabChars)

\* C6 witness: the separator has consumed the run " \t" and left "a"
C6_Witness ==
    /\ call = "numeric_date_parts_separator"
    /\ input = <<" ", "\t", "a">>
    /\ outcome = Ok(<<"a">>, <<>>)

----------------------------------------------------------------------------
(* Properties of the composite recognizers                                 *)

TwoFieldCalls == {"dd_mm_only", "mm_dd_only"}

ThreeFieldCalls == {"y4_mm_dd", "dd_mm_y4", "mm_dd_y4"}

\* a text of lo to hi characters, all decimal digits
IsDigitText(x, lo, hi) ==
    Len(x) \in lo..hi /\ \A k \in 1..Len(x) : IsDigit(x[k])

\* the number a digit text writes
RECURSIVE NumberOf(_)
NumberOf(x) ==
    IF x = <<>> THEN 0
    ELSE 10 * NumberOf(SubSeq(x, 1, Len(x) - 1)) + DigitVal(x[Len(x)])

\* '/', '-', '.', or a run of spaces and tabs
IsAcceptedSeparator(x) ==
    x \in {<<"/">>, <<"-">>, <<".">>}
        \/ (x # <<>> /\ \A k \in 1..Len(x) : x[k] \in SpaceTabChars)

\* the caller composed day and month fields of one or two digits, a year of
\* four digits when the recognizer has one, accepted separators, and a tail
\* that cannot be read as part of the last field
WellFormed ==
    /\ call \in TwoFieldCalls \cup ThreeFieldCalls
    /\ IsDigitText(fields.D, 1, 2)
    /\ IsDigitText(fields.M, 1, 2)
    /\ IsAcceptedSeparator(fields.s1)
    /\ call \in ThreeFieldCalls =>
           IsDigitText(fields.Y, 4, 4) /\ IsAcceptedSeparator(fields.s2)
    /\ fields.tail = <<>> \/ ~IsDigit(fields.tail[1])

DayInRange == NumberOf(fields.D) \in 1..31

MonthInRange == NumberOf(fields.M) \in 1..12

\* the calendar, as the claims state it
LeapYear(y) == (y % 4 = 0 /\ y % 100 # 0) \/ y % 400 = 0

MonthLengths == <<31, 28, 31, 30, 31, 30, 31, 31, 30, 31, 30, 31>>

DaysOfMonth(y, m) == IF m = 2 /\ LeapYear(y) THEN 29 ELSE MonthLengths[m]

\* the clock value of the call, or any date when the call read no clock
ClockOf == IF now.some THEN now.v ELSE CHOOSE t \in Todays : TRUE

\* recognizer name applied to the pieces f in the recognizer's field order
Recognize(name, f, t) ==
    CASE name = "dd_mm_only" -> dd_mm_only(Text_dm(f), t)
      [] name = "mm_dd_only" -> mm_dd_only(Text_md(f), t)
      [] name = "y4_mm_dd" -> y4_mm_dd(Text_ymd(f))
      [] name = "dd_mm_y4" -> dd_mm_y4(Text_dmy(f))
      [] name = "mm_dd_y4" -> mm_dd_y4(Text_mdy(f))

\* the pieces with every separator replaced by "/"
WithSlashes(f) ==
    [f EXCEPT !.s1 = Slash, !.s2 = IF f.s2 = <<>> THEN <<>> ELSE Slash]

\* C7: in each composite recognizer, with in-range fields, every accepted
\* separator at every position gives the result the input has with "/" at
\* each position: the same date and the same remainder.  With nothing after
\* the last field the call succeeds with an empty remainder.
C7_SeparatorsInterchangeable ==
    (WellFormed /\ DayInRange /\ MonthInRange) =>
        /\ outcome = Recognize(call, WithSlashes(fields), ClockOf)
        /\ outcome.ok /\ outcome.rest = fields.tail

\* C7 witness: dd_mm_y4("13    06\t2024") has returned 13 June 2024, nothing left
C7_Witness ==
    /\ call = "dd_mm_y4"
    /\ fields.s1 = FourSpaces /\ fields.s2 = <<"\t">>
    /\ fields.D = Fmt2(13) /\ fields.M = Fmt2(6) /\ fields.Y = Fmt4(2024)
    /\ outcome.ok /\ outcome.rest = <<>> /\ outcome.val.some
    /\ date_year(outcome.val.v) = 2024
    /\ date_month(outcome.val.v) = 6
    /\ date_day(outcome.val.v) = 13

\* the year of the date the call assembles
AssembledYear ==
    IF call \in ThreeFieldCalls THEN NumberOf(fields.Y) ELSE date_year(now.v)

\* C8: in every composite recognizer a day or month field outside its range
\* is a parse failure with DayOutOfRange or MonthOutOfRange, while in-range
\* fields always give a success whose remainder is what follows the last
\* field and whose date is absent when the fields name no calendar date.
C8_ExistenceAsymmetry ==
    WellFormed =>
        /\ (~DayInRange /\ MonthInRange) => outcome = Err(DayOutOfRange)
        /\ (DayInRange /\ ~MonthInRange) => outcome = Err(MonthOutOfRange)
        /\ (~DayInRange /\ ~MonthInRange) =>
               outcome \in {Err(DayOutOfRange), Err(MonthOutOfRange)}
        /\ (DayInRange /\ MonthInRange) =>
               /\ outcome.ok /\ outcome.rest = fields.tail
               /\ NumberOf(fields.D) > DaysOfMonth(AssembledYear, NumberOf(fields.M))
                      => outcome.val = None

\* C8 witness: dd_mm_y4("31-02-2024") has succeeded with an absent date
C8_Witness ==
    /\ call = "dd_mm_y4"
    /\ input = Fmt2(31) \o <<"-">> \o Fmt2(2) \o <<"-">> \o Fmt4(2024)
    /\ outcome = Ok(<<>>, None)

\* C9: a three-field recognizer given year y, month m in 1..12 and day d in
\* 1..31 returns a present date exactly when d is at most the number of days
\* of month m in year y, and the year, month and day of a present date are
\* y, m and d.
C9_PresentIffRealDate ==
    (WellFormed /\ call \in ThreeFieldCalls /\ DayInRange /\ MonthInRange) =>
        LET y == NumberOf(fields.Y)
            m == NumberOf(fields.M)
            d == NumberOf(fields.D)
        IN  /\ outcome.ok
            /\ outcome.val.some <=> d <= DaysOfMonth(y, m)
            /\ outcome.val.some =>
                   /\ date_year(outcome.val.v) = y
                   /\ date_month(outcome.val.v) = m
                   /\ date_day(outcome.val.v) = d

\* C9 witness: y4_mm_dd("2024/02/29") has returned the leap day
C9_Witness ==
    /\ call = "y4_mm_dd"
    /\ input = Fmt4(2024) \o Slash \o Fmt2(2) \o Slash \o Fmt2(29)
    /\ outcome.ok /\ outcome.val.some
    /\ date_month(outcome.val.v) = 2 /\ date_day(outcome.val.v) = 29

\* C10: for day and month fields of one or two digits, a year of four digits
\* and any two separators, y4_mm_dd(Y s1 M s2 D), dd_mm_y4(D s1 M s2 Y) and
\* mm_dd_y4(M s1 D s2 Y) all succeed with the same, possibly absent, date, or
\* none of them succeeds.
C10_SameDateInEveryOrder ==
    ( /\ call \in ThreeFieldCalls
      /\ IsDigitText(fields.D, 1, 2)
      /\ IsDigitText(fields.M, 1, 2)
      /\ IsDigitText(fields.Y, 4, 4)
      /\ fields.tail = <<>> ) =>
        LET a == y4_mm_dd(Text_ymd(fields))
            b == dd_mm_y4(Text_dmy(fields))
            c == mm_dd_y4(Text_mdy(fields))
        IN  IF outcome.ok
            THEN /\ a.ok /\ b.ok /\ c.ok
                 /\ a.val = outcome.val /\ b.val = outcome.val /\ c.val = outcome.val
            ELSE ~a.ok /\ ~b.ok /\ ~c.ok

\* C10 witness: mm_dd_y4("06/13/2024") has returned 13 June 2024
C10_Witness ==
    /\ call = "mm_dd_y4"
    /\ input = Fmt2(6) \o Slash \o Fmt2(13) \o Slash \o Fmt4(2024)
    /\ outcome.ok /\ outcome.val.some
    /\ date_month(outcome.val.v) = 6 /\ date_day(outcome.val.v) = 13

----------------------------------------------------------------------------
(* Properties of the order in which a composite recognizer reads its parts *)

\* the pieces of the input in the order the call reads them
PieceOrder ==
    CASE call = "y4_mm_dd" -> <<"Y", "s1", "M", "s2", "D">>
      [] call = "dd_mm_y4" -> <<"D", "s1", "M", "s2", "Y">>
      [] call = "mm_dd_y4" -> <<"M", "s1", "D", "s2", "Y">>
      [] call = "dd_mm_only" -> <<"D", "s1", "M">>
      [] call = "mm_dd_only" -> <<"M", "s1", "D">>
      [] OTHER -> <<>>

PieceText(p) ==
    CASE p = "D" -> fields.D
      [] p = "M" -> fields.M
      [] p = "Y" -> fields.Y
      [] p = "s1" -> fields.s1
      [] p = "s2" -> fields.s2

\* the input from its k-th piece on
RECURSIVE TextFrom(_)
TextFrom(k) ==
    IF k > Len(PieceOrder) THEN fields.tail
    ELSE PieceText(PieceOrder[k]) \o TextFrom(k + 1)

FieldRange(p) == IF p = "D" THEN 1..31 ELSE 1..12

\* the k-th piece is what its component accepts, and ends where it ends
PieceAccepted(k) ==
    LET p == PieceOrder[k]
        x == PieceText(p)
        after == TextFrom(k + 1)
    IN  CASE p \in {"D", "M"} ->
                 /\ IsDigitText(x, 1, 2) /\ NumberOf(x) \in FieldRange(p)
                 /\ Len(x) = 2 \/ after = <<>> \/ ~IsDigit(after[1])
          [] p \in {"s1", "s2"} ->
                 /\ IsAcceptedSeparator(x)
                 /\ x[1] \in SymbolChars \/ after = <<>> \/ after[1] \notin SpaceTabChars
          [] p = "Y" -> IsDigitText(x, 4, 4)

NoFailure == [kind |-> "none"]

\* the failure the k-th component reports on the text from the k-th piece
\* on, for the failures the claim is about; NoFailure for any other text
PieceFailure(k) ==
    LET p == PieceOrder[k]
        x == PieceText(p)
        here == TextFrom(k)
        after == TextFrom(k + 1)
    IN  CASE p \in {"D", "M"} ->
                 IF /\ IsDigitText(x, 1, 2) /\ NumberOf(x) \notin FieldRange(p)
                    /\ Len(x) = 2 \/ after = <<>> \/ ~IsDigit(after[1])
                 THEN (IF p = "D" THEN DayOutOfRange ELSE MonthOutOfRange)
                 ELSE NoFailure
          [] p \in {"s1", "s2"} ->
                 IF here = <<>> \/ here[1] \notin SymbolChars \cup SpaceTabChars
                 THEN Nom(here, "Space")
                 ELSE NoFailure
          [] p = "Y" ->
                 IF Len(here) < 4 THEN Nom(here, "Eof")
                 ELSE IF \E j \in 1..4 : ~IsDigit(here[j]) /\ ~(j = 1 /\ here[j] = "+")
                      THEN ParseIntError(here, "MapRes", "InvalidDigit")
                      ELSE NoFailure

\* C11: a composite recognizer stops at the first component, in the order
\* of the input text, that fails, and returns that component's failure
\* whatever the later pieces are: when the pieces before the k-th are
\* accepted and the k-th is not, the outcome is the k-th component's failure.
\* So with day and month both out of range dd_mm_y4 reports DayOutOfRange
\* and mm_dd_y4 and y4_mm_dd report MonthOutOfRange.
C11_FirstFailureReported ==
    \A k \in 1..Len(PieceOrder) :
        ( /\ \A j \in 1..(k - 1) : PieceAccepted(j)
          /\ PieceFailure(k) # NoFailure ) =>
            outcome = Err(PieceFailure(k))

\* C11 witness: y4_mm_dd("2024/13/06") has failed with MonthOutOfRange
C11_Witness ==
    /\ call = "y4_mm_dd"
    /\ input = Fmt4(2024) \o Slash \o Fmt2(13) \o Slash \o Fmt2(6)
    /\ outcome = Err(MonthOutOfRange)

----------------------------------------------------------------------------
(* Properties of the recognizers that complete a date from the clock       *)

PartialCalls == {"dd_only", "dd_mm_only", "mm_dd_only"}

\* the call was given a day (and month) of one or two digits, in range
PartialWellFormed ==
    \/ /\ call = "dd_only"
       /\ FieldWidth(input) > 0 /\ FieldNumber(input) \in 1..31
    \/ /\ call \in TwoFieldCalls
       /\ WellFormed /\ DayInRange /\ MonthInRange

GivenDay == IF call = "dd_only" THEN FieldNumber(input) ELSE NumberOf(fields.D)

\* C12: dd_only, dd_mm_only and mm_dd_only always succeed on fields in
\* range, having read the clock; the date is (current year, current month,
\* given day) for dd_only and (current year, given month, given day) for
\* the other two, and it is absent exactly when the day exceeds the length
\* of that month in that year.
C12_CompletedFromClock ==
    PartialWellFormed =>
        /\ outcome.ok /\ now.some
        /\ LET y == date_year(now.v)
               m == IF call = "dd_only" THEN date_month(now.v)
                    ELSE NumberOf(fields.M)
           IN  /\ outcome.val.some <=> GivenDay <= DaysOfMonth(y, m)
               /\ outcome.val.some =>
                      /\ date_year(outcome.val.v) = y
                      /\ date_month(outcome.val.v) = m
                      /\ date_day(outcome.val.v) = GivenDay

\* C12 witness: dd_only("30") on 10 February 2023 has succeeded with an
\* absent date
C12_Witness ==
    /\ call = "dd_only" /\ input = <<"3", "0">>
    /\ now = from_ymd_opt(2023, 2, 10)
    /\ outcome = Ok(<<>>, None)

-----------------------------------------------------------------------------
(* The locale bundles                                                      *)

BundleCalls == {"en::bundle_dmy", "en::bundle_mdy", "ru::bundle"}

\* the results of the alternatives of bundle name on text i with the clock
\* at t, in the documented order: full date, day and month, day only,
\* relative words, named weekday
Alternatives(name, i, t) ==
    CASE name = "en::bundle_dmy" ->
             <<dd_mm_y4(i), dd_mm_only(i, t), dd_only(i, t),
               en_yesterday_opt(i, t), en_tomorrow_opt(i, t),
               en_current_named_weekday_only_opt(i, t)>>
      [] name = "en::bundle_mdy" ->
             <<mm_dd_y4(i), mm_dd_only(i, t), dd_only(i, t),
               en_yesterday_opt(i, t), en_tomorrow_opt(i, t),
               en_current_named_weekday_only_opt(i, t)>>
      [] name = "ru::bundle" ->
             <<dd_mm_y4(i), dd_mm_only(i, t), dd_only(i, t),
               ru_day_before_yesterday_opt(i, t), ru_yesterday_opt(i, t),
               ru_tomorrow_opt(i, t), ru_day_after_tomorrow_opt(i, t),
               ru_current_named_weekday_only_opt(i, t)>>

\* the alternatives of the call made
Tried == Alternatives(call, input, ClockOf)

SomeSucceeds(alts) == \E k \in 1..Len(alts) : alts[k].ok

\* the position of the first success in a list of results
FirstSuccess(alts) ==
    CHOOSE k \in 1..Len(alts) : alts[k].ok /\ \A j \in 1..(k - 1) : ~alts[j].ok

\* C13: a locale bundle returns exactly the result (date and remainder) of
\* the first alternative of its fixed list that succeeds, whatever a later
\* alternative would have made of the text; when the full date succeeds
\* nothing after it is consulted, so the clock is not read
C13_FirstSuccessReturned ==
    (call \in BundleCalls /\ SomeSucceeds(Tried)) =>
        /\ outcome = Tried[FirstSuccess(Tried)]
        /\ FirstSuccess(Tried) = 1 => now = None

\* a day and month are recognized although day-only would succeed as well,
\* with another date and remainder
C13_Witness ==
    /\ call = "en::bundle_dmy"
    /\ SomeSucceeds(Tried)
    /\ FirstSuccess(Tried) = 2
    /\ Tried[3].ok /\ Tried[3] # outcome
    /\ outcome = Tried[2]

\* C14: when every alternative of a bundle fails, the bundle fails with the
\* failure of the last alternative of its list, the named weekday's tag
\* mismatch Nom(input, Tag) on the whole text, and so never with
\* DayOutOfRange or MonthOutOfRange
C14_LastFailureReported ==
    (call \in BundleCalls /\ ~SomeSucceeds(Tried)) =>
        /\ outcome = Tried[Len(Tried)]
        /\ outcome = Err(Nom(input, "Tag"))
        /\ outcome \notin {Err(DayOutOfRange), Err(MonthOutOfRange)}

\* bundle_dmy("42") fails with Nom("42", Tag) while dd_only("42") fails with
\* DayOutOfRange
C14_Witness ==
    /\ call = "en::bundle_dmy"
    /\ input = <<"4", "2">>
    /\ ~SomeSucceeds(Tried)
    /\ Tried[3] = Err(DayOutOfRange)
    /\ outcome = Err(Nom(<<"4", "2">>, "Tag"))

-----------------------------------------------------------------------------
(* Days counted on the calendar                                            *)

YearLength(y) == IF LeapYear(y) THEN 366 ELSE 365

\* t shifted by n days, forward for positive n and backward for negative
\* n: within the year of t by the day of the year, otherwise from the first
\* day of the next year or the last day of the year before
RECURSIVE Shifted(_, _)
Shifted(t, n) ==
    IF t.ordinal + n < 1
    THEN Shifted([year |-> t.year - 1, ordinal |-> YearLength(t.year - 1)],
                 n + t.ordinal)
    ELSE IF t.ordinal + n > YearLength(t.year)
    THEN Shifted([year |-> t.year + 1, ordinal |-> 1],
                 n - (YearLength(t.year) - t.ordinal + 1))
    ELSE [year |-> t.year, ordinal |-> t.ordinal + n]

-----------------------------------------------------------------------------
(* The quick patterns tried before a day-first bundle                      *)

\* C15: in the alternation that tries quick::bundle before the day-first
\* bundle, a day written with one or two digits and no sign ("10") is
\* recognized by dd_only as that day of the current month with nothing left,
\* and the same digits after '+' ("+10") are recognized by forward_from_now
\* as today plus that many days with nothing left
C15_QuickBeforeDayOnly ==
    call = "versatile_parser" =>
        /\ (IsDigitText(input, 1, 2) /\ NumberOf(input) \in 1..28) =>
               /\ outcome = Ok(<<>>, dd_only(input, now.v).val)
               /\ outcome.val.some
               /\ date_year(outcome.val.v) = date_year(now.v)
               /\ date_month(outcome.val.v) = date_month(now.v)
               /\ date_day(outcome.val.v) = NumberOf(input)
        /\ (Len(input) \in 2..3 /\ input[1] = "+" /\ IsDigitText(Tail(input), 1, 2)) =>
               outcome = Ok(<<>>, Shifted(now.v, NumberOf(Tail(input))))

\* "+10" on 2024-02-29 is 2024-03-10, although day-only recognizes a day
\* in the same text
C15_Witness ==
    /\ call = "versatile_parser"
    /\ input = <<"+", "1", "0">>
    /\ now = from_ymd_opt(2024, 2, 29)
    /\ dd_only(input, now.v).ok
    /\ outcome = Ok(<<>>, from_ymd_opt(2024, 3, 10).v)

-----------------------------------------------------------------------------
(* The weekday of the current week                                         *)

\* the days from 2000-01-01 to the first day of year y, for y >= 2000
RECURSIVE DaysToYear(_)
DaysToYear(y) == IF y <= 2000 THEN 0 ELSE DaysToYear(y - 1) + YearLength(y - 1)

\* the weekday of t, Monday = 0 .. Sunday = 6, counted from 2000-01-01, a
\* Saturday
WeekdayOf(t) == (DaysToYear(t.year) + t.ordinal - 1 + 5) % 7

\* the Monday of the Monday-to-Sunday week of t
MondayOf(t) == Shifted(t, 0 - WeekdayOf(t))

\* the Weekday the caller asked for
Requested == CHOOSE wd \in Mon..Sun : WeekdayNames[wd + 1] = input

\* C16: naive_date_for_weekday(wd) returns today shifted by ord(wd) minus
\* ord(today's weekday) days, Monday = 0 .. Sunday = 6: the result has
\* weekday wd and lies in the Monday-to-Sunday week of today, never in the
\* week before or after
C16_WeekdayOfCurrentWeek ==
    call = "naive_date_for_weekday" =>
        /\ outcome.ok
        /\ outcome.val = Shifted(now.v, Requested - WeekdayOf(now.v))
        /\ WeekdayOf(outcome.val) = Requested
        /\ MondayOf(outcome.val) = MondayOf(now.v)

\* on a Sunday, Monday is six days before today
C16_Witness ==
    /\ call = "naive_date_for_weekday"
    /\ now = from_ymd_opt(2024, 7, 21)
    /\ WeekdayOf(now.v) = Sun
    /\ Requested = Mon
    /\ outcome = Ok(<<>>, from_ymd_opt(2024, 7, 15).v)

-----------------------------------------------------------------------------
(* The relative words                                                      *)

\* the literal and the offset in days of each relative-day recognizer
RelativeDays ==
    [name \in {"en::yesterday", "en::tomorrow", "ru::day_before_yesterday",
               "ru::yesterday", "ru::today", "ru::tomorrow",
               "ru::day_after_tomorrow"} |->
        CASE name = "en::yesterday" ->
                 [word |-> <<"y", "e", "s", "t", "e", "r", "d", "a", "y">>, days |-> -1]
          [] name = "en::tomorrow" ->
                 [word |-> <<"t", "o", "m", "o", "r", "r", "o", "w">>, days |-> 1]
          [] name = "ru::day_before_yesterday" ->
                 [word |-> Ru(<<"p", "o", "z", "a", "v", "ch", "e", "r", "a">>), days |-> -2]
          [] name = "ru::yesterday" ->
                 [word |-> Ru(<<"v", "ch", "e", "r", "a">>), days |-> -1]
          [] name = "ru::today" ->
                 [word |-> Ru(<<"s", "e", "g", "o", "d", "n", "ya">>), days |-> 0]
          [] name = "ru::tomorrow" ->
                 [word |-> Ru(<<"z", "a", "v", "t", "r", "a">>), days |-> 1]
          [] name = "ru::day_after_tomorrow" ->
                 [word |-> Ru(<<"p", "o", "s", "l", "e", "z", "a", "v", "t", "r", "a">>),
                  days |-> 2]]

\* the *_opt wrapper of each relative-day recognizer that has one
OptOf ==
    [name \in {"en::yesterday_opt", "en::tomorrow_opt",
               "ru::day_before_yesterday_opt", "ru::yesterday_opt",
               "ru::tomorrow_opt", "ru::day_after_tomorrow_opt"} |->
        CASE name = "en::yesterday_opt" -> "en::yesterday"
          [] name = "en::tomorrow_opt" -> "en::tomorrow"
          [] name = "ru::day_before_yesterday_opt" -> "ru::day_before_yesterday"
          [] name = "ru::yesterday_opt" -> "ru::yesterday"
          [] name = "ru::tomorrow_opt" -> "ru::tomorrow"
          [] name = "ru::day_after_tomorrow_opt" -> "ru::day_after_tomorrow"]

WeekdayOptCalls ==
    {"en::current_named_weekday_only_opt", "ru::current_named_weekday_only_opt"}

\* text i starts with word w, each letter small or capital
StartsWithWord(i, w) ==
    Len(i) >= Len(w) /\ \A k \in 1..Len(w) : i[k] \in {w[k], to_capital(w[k])}

\* what a relative-day recognizer with entry e returns on the text of the
\* call, its date wrapped as the caller expects
RelativeResult(e, wrapped) ==
    IF StartsWithWord(input, e.word)
    THEN Ok(SubSeq(input, Len(e.word) + 1, Len(input)),
            IF wrapped THEN Some(Shifted(now.v, e.days)) ELSE Shifted(now.v, e.days))
    ELSE Err(Nom(input, "Tag"))

\* C18: a relative-day recognizer succeeds exactly on a text that starts
\* with its literal in any letter case, consumes that literal only, and
\* returns today plus its offset (yesterday -1, tomorrow +1, the day before
\* yesterday -2, the day after tomorrow +2, today 0); a successful *_opt
\* wrapper, the named weekday's included, returns a present date
C18_RelativeWords ==
    /\ call \in DOMAIN RelativeDays =>
           outcome = RelativeResult(RelativeDays[call], FALSE)
    /\ call \in DOMAIN OptOf =>
           outcome = RelativeResult(RelativeDays[OptOf[call]], TRUE)
    /\ (call \in DOMAIN OptOf \cup WeekdayOptCalls /\ outcome.ok) =>
           outcome.val.some

\* the day before yesterday, written in capitals and followed by more text,
\* on the first day of a year
C18_Witness ==
    /\ call = "ru::day_before_yesterday_opt"
    /\ input = RU(<<"p", "o", "z", "a", "v", "ch", "e", "r", "a">>) \o <<" ", "1">>
    /\ now = from_ymd_opt(2024, 1, 1)
    /\ outcome = Ok(<<" ", "1">>, from_ymd_opt(2023, 12, 30))

-----------------------------------------------------------------------------
(* The short weekday names                                                 *)

\* the words short_named_weekday documents, each with its weekday
DocumentedShortNames ==
    {[word |-> <<"m", "o", "n">>, means |-> Mon],
     [word |-> <<"t", "u", "e">>, means |-> Tue],
     [word |-> <<"t", "u", "e", "s">>, means |-> Tue],
     [word |-> <<"w", "e", "d">>, means |-> Wed],
     [word |-> <<"t", "h", "u">>, means |-> Thu],
     [word |-> <<"t", "h", "u", "r">>, means |-> Thu],
     [word |-> <<"t", "h", "u", "r", "s">>, means |-> Thu],
     [word |-> <<"f", "r", "i">>, means |-> Fri],
     [word |-> <<"s", "a", "t">>, means |-> Sat],
     [word |-> <<"s", "u", "n">>, means |-> Sun]}

\* C19: English short_named_weekday accepts every word of its documented
\* list, in any letter case, as a whole word: it succeeds with the
\* documented weekday and nothing left over
C19_DocumentedWordsWhole ==
    call = "en::short_named_weekday" =>
        \A e \in DocumentedShortNames :
            input \in Casings(e.word) => outcome = Ok(<<>>, e.means)

-----------------------------------------------------------------------------
(* The quick patterns                                                      *)

\* the signs each quick recognizer starts with
QuickSignsOf ==
    [name \in {"quick::forward_from_now", "quick::backward_from_now", "quick::bundle"} |->
        CASE name = "quick::forward_from_now" -> {"+"}
          [] name = "quick::backward_from_now" -> {"-"}
          [] name = "quick::bundle" -> {"+", "-"}]

\* the text after the sign and the spaces and tabs that follow it
AfterBlanks == Drop(Tail(input), RunLength(Tail(input), SpaceTabChars))

\* the digits of the number of days, and what follows them
CountText == Take(AfterBlanks, RunLength(AfterBlanks, DigitChars))

AfterCount == Drop(AfterBlanks, RunLength(AfterBlanks, DigitChars))

\* a text of digits without its leading zeros
RECURSIVE Significant(_)
Significant(x) == IF x = <<>> \/ Head(x) # "0" THEN x ELSE Significant(Tail(x))

\* 18446744073709551615, the largest unsigned 64-bit integer
LargestU64 ==
    <<"1", "8", "4", "4", "6", "7", "4", "4", "0", "7",
      "3", "7", "0", "9", "5", "5", "1", "6", "1", "5">>

\* digit text a is at most digit text b of the same length
AtMost(a, b) ==
    a = b \/ \E k \in 1..Len(a) :
                 /\ \A j \in 1..(k - 1) : a[j] = b[j]
                 /\ DigitVal(a[k]) < DigitVal(b[k])

FitsU64(x) ==
    \/ Len(Significant(x)) < Len(LargestU64)
    \/ Len(Significant(x)) = Len(LargestU64) /\ AtMost(Significant(x), LargestU64)

\* the call is a sign of the recognizer, spaces and tabs, and a number of
\* days that fits an unsigned 64-bit integer
QuickPattern ==
    /\ call \in DOMAIN QuickSignsOf
    /\ input # <<>> /\ input[1] \in QuickSignsOf[call]
    /\ CountText # <<>> /\ FitsU64(CountText)

\* the number of days with the sign of the call, for a number of at most
\* three significant digits
SignedCount ==
    IF input[1] = "+" THEN NumberOf(Significant(CountText))
    ELSE 0 - NumberOf(Significant(CountText))

\* C20: forward_from_now recognizes '+', spaces and tabs and a number N,
\* backward_from_now the same after '-', quick::bundle either; for every N
\* that fits an unsigned 64-bit integer the call returns, without aborting,
\* today plus (minus) N days and leaves the text after the digits
C20_EveryCountAnswered ==
    QuickPattern =>
        /\ ~panicked(outcome)
        /\ outcome.ok
        /\ outcome.rest = AfterCount
        /\ Len(Significant(CountText)) <= 3 =>
               outcome.val = Shifted(now.v, SignedCount)

-----------------------------------------------------------------------------
(* Concurrent callers                                                      *)

\* what function f returns on text i when it runs alone and the clock
\* shows t
Alone(f, i, t) ==
    CASE f = "dd" -> dd(i)
      [] f = "dd_mm_y4" -> dd_mm_y4(i)
      [] f = "quick::bundle" -> quick_bundle(i, t)
      [] f = "en::bundle_dmy" -> bundle_dmy(i, t)
      [] f = "ru::bundle" -> ru_bundle(i, t)

\* the date caller c's call saw, or any date when it read none
SeenBy(c) == IF callers[c].seen.some THEN callers[c].seen.v ELSE FirstDay

\* C21: no recognizer keeps or changes state between calls: however the
\* steps of concurrent calls interleave, each call returns what it returns
\* when run alone on its text with the date it saw, and the text of a call
\* is never modified while the call runs
C21_InterleavingsAgree ==
    /\ [](\A c \in Threads :
             callers[c].doing = "done" =>
                 callers[c].answer = Alone(callers[c].callee, callers[c].given, SeenBy(c)))
    /\ [][\A c \in Threads :
             (callers[c].doing # "idle" /\ callers'[c].doing # "idle") =>
                 /\ callers'[c].given = callers[c].given
                 /\ callers'[c].callee = callers[c].callee]_vars

\* two calls on different texts are under way at once, each past its first
\* step, and one has returned
C21_Witness ==
    /\ callers["a"].doing = "running" /\ callers["a"].attempt > 2
    /\ callers["b"].doing = "done" /\ Len(callers["b"].log) > 2
    /\ callers["a"].given # callers["b"].given
    /\ callers["b"].answer.ok

\* the largest number of steps of each function: two attempts of a field,
\* the five components of a full date, the alternatives of a bundle
MostSteps ==
    [f \in AltCalls \cup TupleCalls |->
        CASE f = "dd" -> 2
          [] f = "dd_mm_y4" -> 5
          [] f = "quick::bundle" -> 2
          [] f = "en::bundle_dmy" -> 6
          [] f = "ru::bundle" -> 8]

\* the steps caller c's call has made are 1, 2, .. in this order, each once
InOrderOnce(c) ==
    /\ Len(callers[c].log) <= MostSteps[callers[c].callee]
    /\ \A j \in 1..Len(callers[c].log) : callers[c].log[j] = j

\* a call that has returned stopped where it had to: an alt at its first
\* parser that did not fail or after its last one, a tuple at its first
\* parser that failed or after its last one
StoppedInTime(c) ==
    \/ Len(callers[c].log) = MostSteps[callers[c].callee]
    \/ /\ callers[c].callee \in AltCalls
       /\ alt_result(callers[c].callee, callers[c].given, SeenBy(c))[Len(callers[c].log)].ok
    \/ /\ callers[c].callee \in TupleCalls
       /\ ~callers[c].answer.ok

\* C22: every call terminates: a field recognizer makes at most two
\* attempts, a composite runs each component once from left to right, a
\* bundle tries each alternative at most once in order and stops at the
\* first success or after the last alternative
C22_EveryCallEnds ==
    /\ [](\A c \in Threads :
             callers[c].doing # "idle" =>
                 /\ InOrderOnce(c)
                 /\ callers[c].doing = "done" => StoppedInTime(c))
    /\ \A c \in Threads :
           (callers[c].doing = "running") ~> (callers[c].doing = "done")

\* the Russian bundle has tried its eight alternatives and failed
C22_Witness ==
    /\ callers["a"].doing = "done"
    /\ callers["a"].callee = "ru::bundle"
    /\ callers["a"].log = <<1, 2, 3, 4, 5, 6, 7, 8>>
    /\ ~callers["a"].answer.ok

-----------------------------------------------------------------------------
(* The notes of the example program                                        *)

DayFirstBundles == {"en::bundle_dmy", "ru::bundle"}

\* "31-02-2024"
NoSuchDateText ==
    <<"3", "1", "-", "0", "2", "-", "2", "0", "2", "4">>

PlusTen == <<"+", "1", "0">>

\* C24: dd_only, and a day-first bundle, succeed on "+10": dd reads "+1" as
\* day 1 and leaves "0", so the answer is the first day of the current
\* month, not the date ten days ahead that forward_from_now gives; a locale
\* bundle tried first therefore ends the alternation before
\* forward_from_now is reached
C24_PlusTenIsADay ==
    (call \in DayFirstBundles \cup {"dd_only"} /\ input = PlusTen) =>
        /\ outcome.ok /\ now.some
        /\ outcome.rest = <<"0">>
        /\ outcome.val.some
        /\ date_year(outcome.val.v) = date_year(now.v)
        /\ date_month(outcome.val.v) = date_month(now.v)
        /\ date_day(outcome.val.v) = 1
        /\ forward_from_now(input, now.v).ok
        /\ forward_from_now(input, now.v) # outcome

\* en::bundle_dmy("+10") on 16 July 2024 has returned 1 July 2024
C24_Witness ==
    /\ call = "en::bundle_dmy" /\ input = PlusTen
    /\ now = from_ymd_opt(2024, 7, 16)
    /\ outcome = Ok(<<"0">>, from_ymd_opt(2024, 7, 1))

-----------------------------------------------------------------------------
(* What the numeric alternatives of a bundle leave to each other           *)

\* C25: a recognizer that fails consumes nothing, and alt gives every
\* alternative the text the bundle was given, also after an earlier
\* alternative failed behind fields it had matched: whenever dd_mm_y4 fails
\* on the text and dd_mm_only succeeds on it, en::bundle_dmy returns what
\* dd_mm_only returns on the whole text
C25_RetriedFromTheStart ==
    (call = "en::bundle_dmy" /\ ~dd_mm_y4(input).ok /\ dd_mm_only(input, ClockOf).ok) =>
        /\ now.some
        /\ outcome = dd_mm_only(input, now.v)

\* en::bundle_dmy("13/06") on 16 July 2024 has returned 13 June 2024:
\* dd_mm_y4 failed at the second separator after day, separator and month
C25_Witness ==
    /\ call = "en::bundle_dmy"
    /\ input = <<"1", "3", "/", "0", "6">>
    /\ now = from_ymd_opt(2024, 7, 16)
    /\ ~dd_mm_y4(input).ok /\ dd_mm_y4(input).err = Nom(<<>>, "Space")
    /\ outcome = Ok(<<>>, from_ymd_opt(2024, 6, 13))

-----------------------------------------------------------------------------
(* The order of the weekday names                                          *)

\* the full names of the weekdays, each with its weekday
FullNames ==
    {[word |-> <<"m", "o", "n", "d", "a", "y">>, means |-> Mon],
     [word |-> <<"t", "u", "e", "s", "d", "a", "y">>, means |-> Tue],
     [word |-> <<"w", "e", "d", "n", "e", "s", "d", "a", "y">>, means |-> Wed],
     [word |-> <<"t", "h", "u", "r", "s", "d", "a", "y">>, means |-> Thu],
     [word |-> <<"f", "r", "i", "d", "a", "y">>, means |-> Fri],
     [word |-> <<"s", "a", "t", "u", "r", "d", "a", "y">>, means |-> Sat],
     [word |-> <<"s", "u", "n", "d", "a", "y">>, means |-> Sun],
     [word |-> Ru(<<"p", "o", "n", "e", "d", "e", "l", "soft", "n", "i", "k">>), means |-> Mon],
     [word |-> Ru(<<"v", "t", "o", "r", "n", "i", "k">>), means |-> Tue],
     [word |-> Ru(<<"s", "r", "e", "d", "a">>), means |-> Wed],
     [word |-> Ru(<<"ch", "e", "t", "v", "e", "r", "g">>), means |-> Thu],
     [word |-> Ru(<<"p", "ya", "t", "n", "i", "c", "a">>), means |-> Fri],
     [word |-> Ru(<<"s", "u", "b", "b", "o", "t", "a">>), means |-> Sat],
     [word |-> Ru(<<"v", "o", "s", "k", "r", "e", "s", "e", "n", "soft", "e">>), means |-> Sun]}

\* the abbreviations of the weekdays, each with its weekday
ShortNames ==
    DocumentedShortNames \cup
    {[word |-> Ru(<<"p", "n">>), means |-> Mon],
     [word |-> Ru(<<"v", "t">>), means |-> Tue],
     [word |-> Ru(<<"s", "r">>), means |-> Wed],
     [word |-> Ru(<<"ch", "t">>), means |-> Thu],
     [word |-> Ru(<<"p", "t">>), means |-> Fri],
     [word |-> Ru(<<"s", "b">>), means |-> Sat],
     [word |-> Ru(<<"v", "s">>), means |-> Sun]}

\* named_weekday of en.rs and ru.rs, and of en/weekday.rs and ru/weekday.rs
NamedWeekdayCalls == {"en::named_weekday", "ru::named_weekday"}

DottedWeekdayCalls == {"en::weekday::named_weekday", "ru::weekday::named_weekday"}

\* C26: named_weekday consumes a full weekday name entirely and leaves what
\* follows it, accepts an abbreviation without a dot, and, in the variant
\* with short_named_weekday_dot, consumes an abbreviation followed by '.'
\* together with the dot, leaving nothing
C26_LongestNameFirst ==
    call \in NamedWeekdayCalls \cup DottedWeekdayCalls =>
        /\ \A e \in FullNames, x \in WordTails :
               input \in {c \o x : c \in Casings(e.word)} => outcome = Ok(x, e.means)
        /\ \A e \in ShortNames :
               input \in Casings(e.word) => outcome.ok /\ outcome.val = e.means
        /\ call \in DottedWeekdayCalls =>
               \A e \in ShortNames :
                   input \in {c \o <<".">> : c \in Casings(e.word)} =>
                       outcome = Ok(<<>>, e.means)

\* en/weekday.rs named_weekday("tues.") has returned Tue and left "s."
C26_Witness ==
    /\ call = "en::weekday::named_weekday"
    /\ input = <<"t", "u", "e", "s", ".">>
    /\ outcome = Ok(<<"s", ".">>, Tue)

-----------------------------------------------------------------------------
(* The failures                                                            *)

\* the kinds of crate::error::Error that the claim says are produced
ProducedKinds == {"DayOutOfRange", "MonthOutOfRange", "ParseIntError", "Nom"}

RangeKinds == {"DayOutOfRange", "MonthOutOfRange"}

\* C27: every failure a recognizer or bundle returns is a recoverable
\* Err::Error whose kind is DayOutOfRange, MonthOutOfRange, ParseIntError or
\* Nom, never NonExistentDate; and a bundle whose first alternative fails
\* with a range failure goes on: it returns the first success of the later
\* alternatives, or the failure of its last one
C27_RecoverableFailures ==
    /\ (call # "idle" /\ ~outcome.ok /\ ~panicked(outcome)) =>
           /\ outcome.sev = "Error"
           /\ outcome.err.kind \in ProducedKinds
    /\ (call \in BundleCalls /\ ~Tried[1].ok /\ Tried[1].err.kind \in RangeKinds) =>
           IF SomeSucceeds(Tried) THEN outcome = Tried[FirstSuccess(Tried)]
           ELSE outcome = Tried[Len(Tried)]

\* en::bundle_dmy("42"): the numeric alternatives failed with DayOutOfRange
\* and the failure returned is that of the last alternative
C27_Witness ==
    /\ call = "en::bundle_dmy" /\ input = <<"4", "2">>
    /\ Tried[1] = Err(DayOutOfRange) /\ Tried[3] = Err(DayOutOfRange)
    /\ ~outcome.ok /\ outcome.sev = "Error"
    /\ outcome.err = Nom(input, "Tag")

\* the text after the leading day or month field
AfterField == Drop(input, FieldWidth(input))

\* the length of the separator a text starts with: one of '/', '-', '.', or
\* a run of spaces and tabs; 0 when it starts with none
SeparatorWidth(x) ==
    IF x # <<>> /\ x[1] \in SymbolChars THEN 1 ELSE RunLength(x, SpaceTabChars)

\* the text starts with two digits whose number is no month
NoMonthAhead(x) ==
    /\ RunLength(x, DigitChars) >= 2
    /\ 10 * DigitVal(x[1]) + DigitVal(x[2]) \notin 1..12

\* the call returned what dd_only makes of the text: the leading field is
\* the day, the date is that day of the current month and year (absent when
\* the month is shorter), and everything after the field is left
DayOnlyAnswer ==
    /\ outcome.ok /\ now.some
    /\ outcome.rest = AfterField
    /\ outcome.val.some <=>
           FieldNumber(input) <= DaysOfMonth(date_year(now.v), date_month(now.v))
    /\ outcome.val.some =>
           /\ date_year(outcome.val.v) = date_year(now.v)
           /\ date_month(outcome.val.v) = date_month(now.v)
           /\ date_day(outcome.val.v) = FieldNumber(input)

\* C28: a range failure of a more specific alternative does not make a
\* bundle fail.  On a day D in 1..31, a separator and a two-digit month
\* outside 1..12, en::bundle_dmy and ru::bundle succeed through dd_only with
\* day D of the current month and leave the text from the first separator
\* on; on a text whose first two digits are 13..31 en::bundle_mdy succeeds
\* through dd_only in the same way
C28_RangeFailureFallsThrough ==
    /\ ( /\ call \in DayFirstBundles
         /\ FieldWidth(input) > 0 /\ FieldNumber(input) \in 1..31
         /\ SeparatorWidth(AfterField) > 0
         /\ NoMonthAhead(Drop(AfterField, SeparatorWidth(AfterField))) ) =>
           DayOnlyAnswer /\ outcome.rest # <<>>
    /\ ( /\ call = "en::bundle_mdy"
         /\ FieldWidth(input) = 2 /\ FieldNumber(input) \in 13..31 ) =>
           DayOnlyAnswer

\* ru::bundle("13/13/2024") on 16 July 2024 has returned 13 July 2024 and
\* left "/13/2024"
C28_Witness ==
    /\ call = "ru::bundle"
    /\ input = <<"1", "3", "/", "1", "3", "/", "2", "0", "2", "4">>
    /\ now = from_ymd_opt(2024, 7, 16)
    /\ outcome = Ok(<<"/", "1", "3", "/", "2", "0", "2", "4">>, from_ymd_opt(2024, 7, 13))

\* the pieces of the input behind the first field, and behind the second
BehindFirst ==
    IF call = "dd_mm_y4" THEN fields.s1 \o fields.M \o fields.s2 \o fields.Y \o fields.tail
    ELSE fields.s1 \o fields.D \o fields.s2 \o fields.Y \o fields.tail

BehindSecond == fields.s2 \o fields.Y \o fields.tail

\* the two-field recognizer and the bundle with the field order of the call
TwoFieldsOf(i, t) ==
    IF call = "dd_mm_y4" THEN dd_mm_only(i, t) ELSE mm_dd_only(i, t)

BundleOf(i, t) ==
    IF call = "dd_mm_y4" THEN bundle_dmy(i, t) ELSE bundle_mdy(i, t)

\* C29: on every text on which dd_mm_y4 (mm_dd_y4) succeeds, dd_mm_only
\* (mm_dd_only) succeeds too and leaves the second separator, the year and
\* what follows, and dd_only succeeds too and leaves everything behind the
\* first field, whatever the current date is; the bundle returns the
\* full-date answer, which is neither of the other two
C29_PrefixChain ==
    (call \in {"dd_mm_y4", "mm_dd_y4"} /\ outcome.ok) =>
        \A t \in Todays :
            /\ TwoFieldsOf(input, t).ok
            /\ TwoFieldsOf(input, t).rest = BehindSecond
            /\ dd_only(input, t).ok
            /\ dd_only(input, t).rest = BehindFirst
            /\ BundleOf(input, t) = outcome
            /\ TwoFieldsOf(input, t) # outcome
            /\ dd_only(input, t) # outcome

\* dd_mm_y4("30/02/2024") has succeeded with an absent date
C29_Witness ==
    /\ call = "dd_mm_y4"
    /\ input = <<"3", "0", "/", "0", "2", "/", "2", "0", "2", "4">>
    /\ outcome = Ok(<<>>, None)
    /\ dd_mm_only(input, FirstDay) = Ok(<<"/", "2", "0", "2", "4">>, None)

-----------------------------------------------------------------------------
(* What a success leaves                                                   *)

\* the calls that are given a text to recognize
RecognizerCalls(c) == c \notin {"idle", "naive_date_for_weekday"}

\* the shortest full date: a day, a separator, a month, a separator and the
\* four characters of the year
ShortestFullDate == 1 + 1 + 1 + 1 + 4

\* C30: whenever a recognizer or bundle succeeds, what it returns as the
\* remainder is a proper suffix of the text it was given: the text is the
\* consumed prefix followed by the remainder unchanged, and the prefix is
\* not empty; a full-date recognizer consumes at least 8 characters
C30_ProperSuffixLeft ==
    (RecognizerCalls(call) /\ outcome.ok) =>
        /\ Len(outcome.rest) < Len(input)
        /\ outcome.rest = Drop(input, Len(input) - Len(outcome.rest))
        /\ call \in ThreeFieldCalls => Len(input) - Len(outcome.rest) >= ShortestFullDate

\* mm_dd_y4("6/3/2024a") has consumed eight characters and left "a"
C30_Witness ==
    /\ call = "mm_dd_y4"
    /\ input = <<"6", "/", "3", "/", "2", "0", "2", "4", "a">>
    /\ outcome.ok /\ outcome.rest = <<"a">>

====
